---- MODULE Spec2Model ----
(***************************************************************************)
(* Model of the exchange abstraction of xperp-lab: the bounded-retry       *)
(* request loop of the two venue adapters (exchanges/bybit/bybit.py,       *)
(* exchanges/perp_lighter.py), the Broker facade and its retry decorator   *)
(* (exchanges/broker.py) and the order validator                           *)
(* (exchanges/base_exchange.py).                                           *)
(*                                                                         *)
(* One call is in progress at a time.  A call to _request advances one     *)
(* loop iteration (one transport attempt, its classification and its       *)
(* except-clause) per step; the transport's behaviour on an attempt is an  *)
(* input of the step.                                                      *)
(***************************************************************************)
EXTENDS Integers, Sequences, FiniteSets, TLC

(***************************************************************************)
(* Bounds of the model.                                                    *)
(***************************************************************************)
\* cfg.max_retries ranges over 0..MaxRetries (LighterConfig's default is 2)
MaxRetries == 2
\* cfg.retry_backoff_sec ranges over 1..MaxBackoff, in units of 0.25 s
MaxBackoff == 2

\* qty ranges over 0..MaxQtyUnits units of 10^-1, 10^-3 and 10^-4
MaxQtyUnits == 12

\* decimal places of the finest qty or step
MaxDecimals == 4

(***************************************************************************)
(* Exceptions.  An exception object is identified by its class, the loop   *)
(* iteration of _request in which it was raised and whether it was         *)
(* constructed by the exhaustion branch of the generic except-clause       *)
(* (wrapped = TRUE) or is the object the try-body raised.                  *)
(***************************************************************************)
ExcTypes == {"RetryableError", "NonRetryableError", "Other"}

NoExc == [type |-> "none", attempt |-> -1, wrapped |-> FALSE]

Exc(t, k) == [type |-> t, attempt |-> k, wrapped |-> FALSE]

Wrap(e) == [type |-> "RetryableError", attempt |-> e.attempt, wrapped |-> TRUE]

(***************************************************************************)
(* What the HTTP session does on one attempt: it raises, or it answers     *)
(* with a status code and a body.  retCode is Bybit's envelope code; a     *)
(* body that is not a JSON object has json_ok = FALSE.                     *)
(***************************************************************************)
Raise(t) == [raises |-> t, status |-> 0, retCode |-> -1, json_ok |-> FALSE]

Resp(s, c, j) == [raises |-> "none", status |-> s, retCode |-> c, json_ok |-> j]

\* Bybit envelope codes that _request retries
RetryCodes == {10006, 10016, 10018}

BybitInputs ==
  {Raise(t) : t \in ExcTypes}
  \cup {Resp(200, c, TRUE) : c \in {0, 10001, 110001} \cup RetryCodes}
  \cup {Resp(429, 10006, TRUE), Resp(429, -1, FALSE), Resp(403, 10001, TRUE),
        Resp(500, 10000, TRUE), Resp(502, -1, FALSE), Resp(200, -1, FALSE)}

LighterInputs ==
  {Raise(t) : t \in ExcTypes}
  \cup {Resp(s, -1, j) : s \in {200, 400, 404, 429, 500, 503}, j \in BOOLEAN}

Inputs(a) == IF a = "bybit" THEN BybitInputs ELSE LighterInputs

(***************************************************************************)
(* The try-body of one loop iteration: the exception it raises, or NoExc   *)
(* when it returns the parsed body.                                        *)
(***************************************************************************)
BybitTry(inp, k) ==
  IF inp.raises # "none" THEN Exc(inp.raises, k)
  ELSE IF ~inp.json_ok THEN Exc("Other", k)
  ELSE IF inp.retCode = 0 THEN NoExc
  ELSE IF inp.retCode \in RetryCodes THEN Exc("RetryableError", k)
  ELSE Exc("NonRetryableError", k)

LighterTry(inp, k) ==
  IF inp.raises # "none" THEN Exc(inp.raises, k)
  ELSE IF inp.status >= 500 THEN Exc("RetryableError", k)
  ELSE IF inp.status >= 400 THEN Exc("NonRetryableError", k)
  ELSE IF ~inp.json_ok THEN Exc("Other", k)
  ELSE NoExc

TryBody(a, inp, k) == IF a = "bybit" THEN BybitTry(inp, k) ELSE LighterTry(inp, k)

(***************************************************************************)
(* The loop bound and the except-clauses.                                  *)
(***************************************************************************)
\* for attempt in range(self.cfg.max_retries + 1)
LoopBound(mr) == mr + 1

\* (mutation) the exhaustion test fires one attempt early
Exhausted_OneEarly(k, mr) == k + 1 >= mr

\* if attempt >= self.cfg.max_retries
Exhausted(k, mr) == k >= mr

\* time.sleep(...) argument
BybitDelay(b, k) == b * (k + 1)

LighterDelay(b, k) == b

Delay(a, b, k) == IF a = "bybit" THEN BybitDelay(b, k) ELSE LighterDelay(b, k)

\* (mutation) NonRetryableError is handled like RetryableError
Handler_RetryNonRetryable(e, k, mr) ==
  IF e.type \in {"RetryableError", "NonRetryableError"}
    THEN (IF Exhausted(k, mr) THEN "raise" ELSE "sleep")
    ELSE (IF Exhausted(k, mr) THEN "wrap" ELSE "sleep")

\* (mutation) an exhausted RetryableError is wrapped in a new one
Handler_WrapRetryable(e, k, mr) ==
  IF e.type = "NonRetryableError" THEN "raise"
  ELSE (IF Exhausted(k, mr) THEN "wrap" ELSE "sleep")

\* (mutation) an unclassified exception propagates at once
Handler_RaiseUnclassified(e, k, mr) ==
  IF e.type = "RetryableError" THEN (IF Exhausted(k, mr) THEN "raise" ELSE "sleep")
  ELSE "raise"

\* what the except-clause matching e does in iteration k:
\* "raise" (re-raise e), "wrap" (raise a new RetryableError) or "sleep"
Handler(e, k, mr) ==
  IF e.type = "RetryableError" THEN (IF Exhausted(k, mr) THEN "raise" ELSE "sleep")
  ELSE IF e.type = "NonRetryableError" THEN "raise"
  ELSE (IF Exhausted(k, mr) THEN "wrap" ELSE "sleep")

(***************************************************************************)
(* Python floats.  OrderParams.qty, OrderParams.price and the fields of    *)
(* SymbolInfo are floats (IEEE-754 binary64), and validate_order computes  *)
(* with them: /, round(), *, <, !=.  A float is modelled by its sign, its  *)
(* significand (an integer of exactly MantBits bits, or 0) and its binary  *)
(* exponent; every operation rounds to nearest, ties to even, as the       *)
(* hardware does.  Significands do not fit TLC's integers, so natural      *)
(* numbers of any size are kept as little-endian sequences of limbs.       *)
(* Infinities, NaN and subnormals do not arise for the bounded inputs.     *)
(***************************************************************************)
\* significand width of binary64
MantBits == 53

Base == 2^15

RECURSIVE BitLenSmall(_)
BitLenSmall(n) == IF n = 0 THEN 0 ELSE 1 + BitLenSmall(n \div 2)

LimbBits == BitLenSmall(Base - 1)

RECURSIVE NNorm(_)
NNorm(a) ==
  IF a = <<>> THEN a
  ELSE IF a[Len(a)] = 0 THEN NNorm(SubSeq(a, 1, Len(a) - 1))
  ELSE a

RECURSIVE NFromInt(_)
NFromInt(n) == IF n = 0 THEN <<>> ELSE <<n % Base>> \o NFromInt(n \div Base)

Limb(a, i) == IF i <= Len(a) THEN a[i] ELSE 0

RECURSIVE NAddC(_, _, _, _)
NAddC(a, b, i, c) ==
  IF i > Len(a) /\ i > Len(b) THEN (IF c = 0 THEN <<>> ELSE <<c>>)
  ELSE LET s == Limb(a, i) + Limb(b, i) + c
       IN <<s % Base>> \o NAddC(a, b, i + 1, s \div Base)

NAdd(a, b) == NAddC(a, b, 1, 0)

RECURSIVE NSubB(_, _, _, _)
NSubB(a, b, i, bw) ==
  IF i > Len(a) THEN <<>>
  ELSE LET d == Limb(a, i) - Limb(b, i) - bw
       IN <<IF d < 0 THEN d + Base ELSE d>>
            \o NSubB(a, b, i + 1, IF d < 0 THEN 1 ELSE 0)

\* a - b, for a >= b
NSub(a, b) == NNorm(NSubB(a, b, 1, 0))

RECURSIVE NGEq(_, _, _)
NGEq(a, b, i) ==
  IF i = 0 THEN TRUE
  ELSE IF a[i] # b[i] THEN a[i] > b[i]
  ELSE NGEq(a, b, i - 1)

NGE(a, b) == IF Len(a) # Len(b) THEN Len(a) > Len(b) ELSE NGEq(a, b, Len(a))

RECURSIVE NMulC(_, _, _, _)
NMulC(a, k, i, c) ==
  IF i > Len(a) THEN (IF c = 0 THEN <<>> ELSE <<c>>)
  ELSE LET s == a[i] * k + c
       IN <<s % Base>> \o NMulC(a, k, i + 1, s \div Base)

\* a * k, for a limb k
NMulSmall(a, k) == IF k = 0 THEN <<>> ELSE NMulC(a, k, 1, 0)

NShlLimbs(a, n) == IF a = <<>> THEN a ELSE [i \in 1..n |-> 0] \o a

RECURSIVE NMulFrom(_, _, _)
NMulFrom(a, b, j) ==
  IF j > Len(b) THEN <<>>
  ELSE NAdd(NShlLimbs(NMulSmall(a, b[j]), j - 1), NMulFrom(a, b, j + 1))

NMul(a, b) == NMulFrom(a, b, 1)

NBitLen(a) ==
  IF a = <<>> THEN 0 ELSE LimbBits * (Len(a) - 1) + BitLenSmall(a[Len(a)])

\* bit i of a, bit 0 the lowest
NBit(a, i) == (Limb(a, i \div LimbBits + 1) \div 2^(i % LimbBits)) % 2

\* a * 2^k
NShl(a, k) == NShlLimbs(NMulSmall(a, 2^(k % LimbBits)), k \div LimbBits)

\* a \div 2^k
NShr(a, k) ==
  LET n  == k \div LimbBits
      r  == k % LimbBits
      hi == IF n >= Len(a) THEN <<>> ELSE SubSeq(a, n + 1, Len(a))
  IN NNorm([i \in 1..Len(hi) |->
              (hi[i] \div 2^r) + (Limb(hi, i + 1) % 2^r) * 2^(LimbBits - r)])

\* a % 2^k # 0
NLowNonzero(a, k) == \E i \in 0..(k - 1) : NBit(a, i) = 1

\* one step of long division: st holds the quotient and the remainder of
\* the bits of num above bit i; the result holds them for bit i and above
NDivBit(num, den, i, st) ==
  LET r2 == NAdd(NAdd(st.r, st.r), IF NBit(num, i) = 1 THEN <<1>> ELSE <<>>)
      ge == NGE(r2, den)
  IN [q |-> NAdd(NAdd(st.q, st.q), IF ge THEN <<1>> ELSE <<>>),
      r |-> IF ge THEN NSub(r2, den) ELSE r2]

\* the steps for bits hi-1, ..., lo of num, in that order (the test on Len
\* makes TLC evaluate the upper half's result before the lower half starts)
RECURSIVE NDivBits(_, _, _, _, _)
NDivBits(num, den, hi, lo, st) ==
  IF hi <= lo THEN st
  ELSE IF hi = lo + 1 THEN NDivBit(num, den, lo, st)
  ELSE LET mid == (hi + lo) \div 2
           st1 == NDivBits(num, den, hi, mid, st)
       IN IF Len(st1.q) + Len(st1.r) >= 0
            THEN NDivBits(num, den, mid, lo, st1)
            ELSE st1

\* quotient and remainder of num by den, den > 0
NDivMod(num, den) ==
  NDivBits(num, den, NBitLen(num), 0, [q |-> <<>>, r |-> <<>>])

\* the float nearest to (x + f) * 2^e where 0 <= f < 1 and f > 0 iff sticky;
\* x > 0, and x has at least MantBits + 2 bits when sticky
FRound(x, sticky, e) ==
  LET len == NBitLen(x)
  IN IF len <= MantBits
       THEN [m |-> NShl(x, MantBits - len), e |-> e - (MantBits - len)]
       ELSE LET drop  == len - MantBits
                kept  == NShr(x, drop)
                guard == NBit(x, drop - 1)
                low   == sticky \/ NLowNonzero(x, drop - 1)
                up    == guard = 1 /\ (low \/ NBit(kept, 0) = 1)
                m1    == IF up THEN NAdd(kept, <<1>>) ELSE kept
            IN IF NBitLen(m1) > MantBits
                 THEN [m |-> NShr(m1, 1), e |-> e + drop + 1]
                 ELSE [m |-> m1, e |-> e + drop]

\* the float nearest to num / den, for num > 0 and den > 0
RoundRat(num, den) ==
  LET need == MantBits + 2 + NBitLen(den) - NBitLen(num)
      s    == IF need > 0 THEN need ELSE 0
      dm   == NDivMod(NShl(num, s), den)
  IN FRound(dm.q, dm.r # <<>>, 0 - s)

FZero == [neg |-> FALSE, m |-> <<>>, e |-> 0]

Abs(n) == IF n < 0 THEN 0 - n ELSE n

\* float("<n>e-<d>"): the float a decimal literal n * 10^-d denotes
FromDecimal(x) ==
  IF x.n = 0 THEN FZero
  ELSE LET r == RoundRat(NFromInt(Abs(x.n)), NFromInt(10^x.d))
       IN [neg |-> x.n < 0, m |-> r.m, e |-> r.e]

\* a / b, b nonzero
FDiv(a, b) ==
  IF a.m = <<>> THEN FZero
  ELSE LET r == RoundRat(a.m, b.m)
       IN [neg |-> a.neg # b.neg, m |-> r.m, e |-> r.e + a.e - b.e]

\* round(a): the nearest integer, ties to even
PyRound(a) ==
  IF a.m = <<>> THEN [neg |-> FALSE, k |-> <<>>]
  ELSE IF a.e >= 0 THEN [neg |-> a.neg, k |-> NShl(a.m, a.e)]
  ELSE LET f     == 0 - a.e
           ip    == NShr(a.m, f)
           guard == NBit(a.m, f - 1)
           low   == NLowNonzero(a.m, IF f - 1 < MantBits THEN f - 1 ELSE MantBits)
           up    == guard = 1 /\ (low \/ NBit(ip, 0) = 1)
           k     == IF up THEN NAdd(ip, <<1>>) ELSE ip
       IN [neg |-> a.neg /\ k # <<>>, k |-> k]

\* n * b for an int n: n is converted to float, then multiplied
IntTimesFloat(n, b) ==
  IF n.k = <<>> \/ b.m = <<>> THEN FZero
  ELSE LET nf == FRound(n.k, FALSE, 0)
           r  == FRound(NMul(nf.m, b.m), FALSE, nf.e + b.e)
       IN [neg |-> n.neg # b.neg, m |-> r.m, e |-> r.e]

\* a == b
FEq(a, b) == a = b

\* a < b
FLess(a, b) ==
  LET magLess(x, y) ==
        IF y.m = <<>> THEN FALSE
        ELSE IF x.m = <<>> THEN TRUE
        ELSE x.e < y.e \/ (x.e = y.e /\ x.m # y.m /\ NGE(y.m, x.m))
  IN IF a.neg /\ ~b.neg THEN TRUE
     ELSE IF ~a.neg /\ b.neg THEN FALSE
     ELSE IF a.neg THEN magLess(b, a)
     ELSE magLess(a, b)

(***************************************************************************)
(* OrderParams, SymbolInfo and the order validator.  A float field is      *)
(* given by the decimal literal it was made from, n * 10^-d; an Optional   *)
(* field is None or Some(value).                                           *)
(***************************************************************************)
Dec(n, d) == [n |-> n, d |-> d]

Pow10(k) == 10 ^ k

\* a <= b for two decimal numbers (float() is monotone, so this is also the
\* order of the floats made from them)
DecLE(a, b) ==
  a.n * Pow10(MaxDecimals - a.d) <= b.n * Pow10(MaxDecimals - b.d)

None == [some |-> FALSE, v |-> Dec(0, 0)]

Some(x) == [some |-> TRUE, v |-> x]

OrderParams(t, q, px) == [order_type |-> t, qty |-> q, price |-> px]

SymbolInfo(tick, step, minq) ==
  [price_tick_size |-> tick, qty_step_size |-> step, min_qty |-> minq]

\* the truth value of an Optional[float]: None and 0.0 are false
Truthy(o) == o.some /\ FromDecimal(o.v).m # <<>>

\* round(x / step) * step == x
Aligned(x, step) == FEq(IntTimesFloat(PyRound(FDiv(x, step)), step), x)

\* validate_order(p, info): "ok", or the reason of the NonRetryableError
validate_order(p, info) ==
  IF p.order_type = "limit" /\ ~p.price.some
    THEN "limit order requires price"
  ELSE IF Truthy(info.min_qty)
          /\ FLess(FromDecimal(p.qty), FromDecimal(info.min_qty.v))
    THEN "qty<min_qty"
  ELSE IF ~Aligned(FromDecimal(p.qty), FromDecimal(info.qty_step_size))
    THEN "qty not aligned to stepSize"
  ELSE IF p.price.some
          /\ ~Aligned(FromDecimal(p.price.v), FromDecimal(info.price_tick_size))
    THEN "price not aligned to tickSize"
  ELSE "ok"

\* the NonRetryableError raised outside _request (validator, empty answer)
LocalError == [type |-> "NonRetryableError", attempt |-> -1, wrapped |-> FALSE]

NoParams == OrderParams("none", Dec(0, 0), None)

NoInfo == SymbolInfo(Dec(0, 0), Dec(0, 0), None)

\* LighterExchange.get_symbol_info: no request is made, the defaults are used
LighterSymbolInfo == SymbolInfo(Dec(5, 1), Dec(1, 3), None)

\* contract data Bybit's instruments-info may answer with
BybitSymbolInfos ==
  {SymbolInfo(Dec(5, 1), Dec(1, 3), Some(Dec(1, 3))),
   SymbolInfo(Dec(1, 1), Dec(1, 1), Some(Dec(1, 1)))}

\* the orders passed to place_order
PlacedOrders ==
  {OrderParams("market", Dec(2, 3), None),
   OrderParams("market", Dec(15, 4), None),
   OrderParams("market", Dec(3, 1), None),
   OrderParams("limit", Dec(2, 3), None),
   OrderParams("limit", Dec(2, 3), Some(Dec(5, 1))),
   OrderParams("limit", Dec(2, 1), Some(Dec(7, 1)))}

(***************************************************************************)
(* State.                                                                  *)
(***************************************************************************)
VARIABLES
  adapter,        \* "bybit" or "lighter": the adapter instance
  max_retries,    \* cfg.max_retries
  retry_backoff,  \* cfg.retry_backoff_sec
  op,             \* the operation in progress, "none" when idle
  phase,          \* position inside the operation
  attempt,        \* _request's loop variable
  trace,          \* per iteration of the current _request call: the
                  \*   exception of the try-body and what its handler did
  sleeps,         \* the arguments of time.sleep in the current _request call
  req_result,     \* outcome of the latest _request call
  last_inp,       \* transport behaviour on the latest attempt
  sent,           \* endpoints of the HTTP requests sent by the operation
  b_calls,        \* Broker: the outcome of each adapter call the retry
                  \*   wrapper made for the operation in progress
  b_sleeps,       \* Broker: number of waits of the retry wrapper
  params,         \* the OrderParams of the call in progress
  info,           \* the SymbolInfo the call in progress validates against
  v_result,       \* what validate_order answered in the call in progress
  order_id,       \* the order_id argument of the call in progress
  depth,          \* the depth argument of get_orderbook
  prev,           \* what the caller did just before on the same order:
                  \*   "placed", "canceled" or "none"
  orders,         \* the orders argument of place_orders_bulk
  checked,        \* place_orders_bulk: how many orders passed validation
  x_arg,          \* the x argument of set_leverage, 0 when none
  venue,          \* what the venue holds, and answers when it is asked
  ret,            \* the rows (OrderAcks, Positions) the operation returns
  limit,          \* the limit parameter get_orderbook sends
  result,         \* outcome of the operation
  created,        \* how many orders the venue has created for the call
  leverage,       \* the leverage last requested at the venue for the
                  \*   symbol by the calls made so far, 0 when none
  symbol,         \* the symbol argument of the call whose symbol
                  \*   translation is followed
  ex_symbol,      \* the venue symbol the call made of it
  std_symbol,     \* _map_symbol_in of that venue symbol
  lock,           \* the thread holding self._lock, "none" when free
  pc,             \* per thread: its position inside _request
  stamp,          \* per thread: the timestamp it took for its signature
  signed,         \* the signatures made so far, in order: thread, timestamp
  clock,          \* time.time() in milliseconds
  cooldown_sec,   \* SentinelEngine.cooldown_sec
  now,            \* time() at the latest update call, in ticks
  last_fire_ts,   \* SentinelEngine._last_fire_ts
  reached,        \* the level the score of the latest update reached
  level,          \* the level the latest update returned
  fired           \* the ticks at which update returned tighten or pause
                  \*   since the latest reset_cooldown

cfg_vars == <<adapter, max_retries, retry_backoff>>

req_vars == <<attempt, trace, sleeps, req_result, last_inp, sent>>

broker_vars == <<b_calls, b_sleeps>>

order_vars == <<params, info, v_result>>

arg_vars == <<order_id, depth, prev, orders, checked, x_arg>>

out_vars == <<venue, ret, limit>>

venue_vars == <<created, leverage>>

symbol_vars == <<symbol, ex_symbol, std_symbol>>

lock_vars == <<lock, pc, stamp, signed, clock>>

sentinel_vars == <<cooldown_sec, now, last_fire_ts, reached, level, fired>>

\* the state of what is not the adapter's operations
other_vars == <<symbol_vars, lock_vars, sentinel_vars>>

\* the state of the adapter's operations
adapter_vars == <<cfg_vars, op, phase, req_vars, broker_vars, order_vars,
                  arg_vars, out_vars, result, venue_vars>>

vars == <<adapter_vars, other_vars>>

NoInput == Raise("none")

\* an OrderAck: ok, status, and whether it carries an error text
NoAck == [ok |-> FALSE, status |-> "none", error |-> FALSE]

Ack(ok, status, error) == [ok |-> ok, status |-> status, error |-> error]

NoResult == [kind |-> "none", exc |-> NoExc, ack |-> NoAck]

Returned == [kind |-> "return", exc |-> NoExc, ack |-> NoAck]

ReturnedAck(a) == [kind |-> "return", exc |-> NoExc, ack |-> a]

Raised(e) == [kind |-> "raise", exc |-> e, ack |-> NoAck]

\* one entry of a venue answer: an order (orderStatus, cumExecQty), a
\* position (size) or a batch item (retCode, retMsg).  parses = FALSE: the
\* numeric field is a string float() cannot convert
VRow(st, q, ok, code, msg) ==
  [status |-> st, qty |-> q, parses |-> ok, retCode |-> code, retMsg |-> msg]

\* the venue's answer body: the entries of its "list"
Body(rows) == [list |-> rows]

NoBody == Body(<<>>)

\* one returned row: an OrderAck (ok, status, whether error is a non-empty
\* text, order_id, filled_qty) or a Position (qty is its size)
Row(ok, st, err, id, q) ==
  [ok |-> ok, status |-> st, error |-> err, order_id |-> id, qty |-> q]

\* the part of an OrderAck row kept in result
AckOf(r) == Ack(r.ok, r.status, r.error)

\* OrderAck(ok=False, error=<text>)
ErrorRow == Row(FALSE, "none", TRUE, "None", None)

\* no call in progress
AdapterIdle ==
  /\ op = "none"
  /\ phase = "idle"
  /\ attempt = 0
  /\ trace = <<>>
  /\ sleeps = <<>>
  /\ req_result = NoResult
  /\ last_inp = NoInput
  /\ sent = <<>>
  /\ b_calls = <<>>
  /\ b_sleeps = 0
  /\ params = NoParams
  /\ info = NoInfo
  /\ v_result = "none"
  /\ order_id = "none"
  /\ depth = 0
  /\ prev = "none"
  /\ orders = <<>>
  /\ checked = 0
  /\ x_arg = 0
  /\ venue = NoBody
  /\ ret = <<>>
  /\ limit = 0
  /\ result = NoResult
  /\ created = 0
  /\ leverage = 0

\* no symbol has been translated
SymbolIdle ==
  /\ symbol = ""
  /\ ex_symbol = ""
  /\ std_symbol = ""

Threads == {"t1", "t2"}

\* no thread is inside _request; self._lock = threading.Lock() is free
LockIdle ==
  /\ lock = "none"
  /\ pc = [t \in Threads |-> "idle"]
  /\ stamp = [t \in Threads |-> 0]
  /\ signed = <<>>
  /\ clock = 0

\* self._last_fire_ts = 0, in an engine of cooldown c whose clock shows t
SentinelIdle(c, t) ==
  /\ cooldown_sec = c
  /\ now = t
  /\ last_fire_ts = 0
  /\ reached = "none"
  /\ level = "none"
  /\ fired = <<>>

Idle ==
  /\ AdapterIdle
  /\ SymbolIdle
  /\ LockIdle
  /\ SentinelIdle(0, 0)

Init ==
  /\ adapter \in {"bybit", "lighter"}
  /\ max_retries \in 0..MaxRetries
  /\ retry_backoff \in 1..MaxBackoff
  /\ Idle

\* a call starts: nothing is left of the previous one
Fresh ==
  /\ trace' = <<>>
  /\ sleeps' = <<>>
  /\ req_result' = NoResult
  /\ last_inp' = NoInput
  /\ sent' = <<>>
  /\ b_calls' = <<>>
  /\ b_sleeps' = 0
  /\ v_result' = "none"
  /\ ret' = <<>>
  /\ limit' = 0
  /\ result' = NoResult
  /\ created' = 0
  /\ leverage' = 0

\* the call takes no depth and no list of orders
NoListArgs ==
  /\ depth' = 0
  /\ orders' = <<>>
  /\ checked' = 0
  /\ x_arg' = 0
  /\ venue' = NoBody

\* the call takes no order_id either and follows no other call
NoArgs ==
  /\ order_id' = "none"
  /\ prev' = "none"
  /\ NoListArgs

(***************************************************************************)
(* A direct call of _request (as made by every read operation).            *)
(***************************************************************************)
CallRequest ==
  /\ phase = "idle"
  /\ op' = "_request"
  /\ phase' = "request"
  /\ attempt' = 0
  /\ Fresh
  /\ NoArgs
  /\ UNCHANGED <<cfg_vars, params, info>>
  /\ UNCHANGED other_vars

\* outcome of one loop iteration of _request on transport behaviour inp:
\* the exception of the try-body, what the handler does and the outcome of
\* the whole call once the loop is left
Iteration(a, inp, k, mr) ==
  LET e == TryBody(a, inp, k)
      h == IF e = NoExc THEN "return" ELSE Handler(e, k, mr)
  IN [exc   |-> e,
      act   |-> h,
      res   |-> CASE h = "return" -> Returned
                  [] h = "raise"  -> Raised(e)
                  [] h = "wrap"   -> Raised(Wrap(e))
                  [] OTHER        -> NoResult]

\* one loop iteration of _request for endpoint ep on transport behaviour inp
RequestLoop(ep, inp) ==
  LET it == Iteration(adapter, inp, attempt, max_retries)
  IN /\ attempt < LoopBound(max_retries)
     /\ last_inp' = inp
     /\ sent' = Append(sent, ep)
     /\ trace' = Append(trace, [exc |-> it.exc, act |-> it.act])
     /\ req_result' = it.res
     /\ IF it.act = "sleep"
          THEN /\ sleeps' = Append(sleeps, Delay(adapter, retry_backoff, attempt))
               /\ attempt' = attempt + 1
          ELSE UNCHANGED <<attempt, sleeps>>

RequestAttempt ==
  /\ phase = "request"
  /\ \E inp \in Inputs(adapter) : RequestLoop("generic", inp)
  /\ IF req_result'.kind = "none"
       THEN UNCHANGED <<phase, result>>
       ELSE /\ phase' = "done"
            /\ result' = req_result'
  /\ UNCHANGED <<cfg_vars, op, broker_vars, order_vars, arg_vars, out_vars>>
  /\ UNCHANGED <<venue_vars, other_vars>>

(***************************************************************************)
(* Order statuses.  Bybit's get_order and get_open_orders look the venue's *)
(* orderStatus up in status_map; Lighter's order operations lower-case the *)
(* status of a raw answer they build themselves and ask the venue nothing. *)
(***************************************************************************)
\* status_map.get(..., "unknown")
StatusMap(st) ==
  CASE st = "New"             -> "new"
    [] st = "PartiallyFilled" -> "partial"
    [] st = "Filled"          -> "filled"
    [] st = "Cancelled"       -> "canceled"
    [] st = "Rejected"        -> "rejected"
    [] OTHER                  -> "unknown"

\* str(...).lower() on the statuses Lighter's raw answers hold
LowerCase(st) ==
  CASE st = "NEW"      -> "new"
    [] st = "CANCELED" -> "canceled"
    [] OTHER           -> st

\* Lighter's OrderAck(ok=True, ...) built from raw = {"status": st, ...}
LighterAck(st, id) == Row(TRUE, LowerCase(st), FALSE, id, Some(Dec(0, 0)))

\* order statuses of the venue; "" is an answer without orderStatus
VenueStatuses ==
  {"New", "PartiallyFilled", "Filled", "Cancelled", "Rejected",
   "Untriggered", "PartiallyFilledCanceled", ""}

\* the executed quantities (cumExecQty) the venue reports
VenueQtys == {Dec(0, 0), Dec(1, 3), Dec(2, 3)}

\* the venue's entries for one order
OrderRows ==
  {VRow(st, q, TRUE, 0, FALSE) : st \in VenueStatuses, q \in VenueQtys}
  \cup {VRow(st, Dec(0, 0), FALSE, 0, FALSE) : st \in {"New", "Untriggered"}}

\* the venue's entries in a list of open orders
OpenOrderRows ==
  {VRow(st, Dec(1, 3), ok, 0, FALSE) :
     st \in {"New", "PartiallyFilled", "Untriggered"}, ok \in BOOLEAN}

\* the sequences of at most two entries of rows
UpToTwo(rows) ==
  {<<>>} \cup {<<r>> : r \in rows} \cup {<<r1, r2>> : r1 \in rows, r2 \in rows}

(***************************************************************************)
(* place_order.  Bybit: get_symbol_info (a _request), validate_order, then *)
(* the order-create _request inside try/except.  Lighter: get_symbol_info  *)
(* and the submission make no request; validate_order runs between them.   *)
(***************************************************************************)
CallPlaceOrder ==
  /\ phase = "idle"
  /\ op' = "place_order"
  /\ params' \in PlacedOrders
  /\ attempt' = 0
  /\ Fresh
  /\ NoArgs
  /\ IF adapter = "bybit"
       THEN /\ phase' = "symbol_info"
            /\ info' = NoInfo
       ELSE /\ phase' = "validate"
            /\ info' = LighterSymbolInfo
  /\ UNCHANGED cfg_vars
  /\ UNCHANGED other_vars

\* Bybit: one loop iteration of the _request of get_symbol_info; when it
\* returns, the answer is parsed into a SymbolInfo (body) or found empty
PlaceOrderSymbolInfo ==
  /\ phase = "symbol_info"
  /\ \E inp \in Inputs(adapter) : RequestLoop("instruments-info", inp)
  /\ \E body \in {NoInfo} \cup BybitSymbolInfos :
       CASE req_result'.kind = "none" ->
              /\ body = NoInfo
              /\ UNCHANGED <<phase, info, result>>
         [] req_result'.kind = "raise" ->
              /\ body = NoInfo
              /\ phase' = "done"
              /\ result' = req_result'
              /\ UNCHANGED info
         [] req_result'.kind = "return" /\ body = NoInfo ->
              /\ phase' = "done"
              /\ result' = Raised(LocalError)
              /\ UNCHANGED info
         [] OTHER ->
              /\ phase' = "validate"
              /\ info' = body
              /\ UNCHANGED result
  /\ UNCHANGED <<cfg_vars, op, broker_vars, params, v_result, arg_vars,
                 out_vars>>
  /\ UNCHANGED <<venue_vars, other_vars>>

\* validate_order and what follows it up to the next request, or the return
PlaceOrderValidate ==
  /\ phase = "validate"
  /\ v_result' = validate_order(params, info)
  /\ IF v_result' # "ok"
       THEN /\ phase' = "done"
            /\ result' = Raised(LocalError)
            /\ UNCHANGED <<req_vars, ret>>
       ELSE IF params.order_type = "limit" /\ ~params.price.some
       THEN /\ phase' = "done"
            /\ ret' = <<ErrorRow>>
            /\ result' = ReturnedAck(AckOf(ErrorRow))
            /\ UNCHANGED req_vars
       ELSE IF adapter = "bybit"
       THEN /\ phase' = "create"
            /\ attempt' = 0
            /\ trace' = <<>>
            /\ sleeps' = <<>>
            /\ req_result' = NoResult
            /\ UNCHANGED <<last_inp, sent, result, ret>>
       ELSE /\ phase' = "done"
            /\ ret' = <<LighterAck("NEW", "None")>>
            /\ result' = ReturnedAck(AckOf(ret'[1]))
            /\ UNCHANGED req_vars
  /\ UNCHANGED <<cfg_vars, op, broker_vars, params, info, arg_vars, venue,
                 limit>>
  /\ UNCHANGED <<venue_vars, other_vars>>

\* Bybit: one loop iteration of the order-create _request; its outcome is
\* turned into an OrderAck
\* What one POST /v5/order/create does at the venue.  An answer with
\* retCode 0 means one order was created.  When the transport raises
\* (requests.Timeout, a connection reset while reading) the request may
\* or may not have reached the matching engine: the answer was lost, the
\* order possibly not.  An error answer creates nothing.
VenueCreates(inp, n) ==
  IF inp.raises = "none" /\ inp.json_ok /\ inp.retCode = 0 THEN {n + 1}
  ELSE IF inp.raises = "Other" THEN {n, n + 1}
  ELSE {n}

PlaceOrderCreate ==
  /\ phase = "create"
  /\ \E inp \in Inputs(adapter) : RequestLoop("order/create", inp)
  /\ CASE req_result'.kind = "none" -> UNCHANGED <<phase, result, ret>>
       [] req_result'.kind = "raise" ->
            /\ phase' = "done"
            /\ ret' = <<ErrorRow>>
            /\ result' = ReturnedAck(AckOf(ErrorRow))
       [] OTHER ->
            /\ phase' = "done"
            /\ ret' = <<Row(TRUE, "new", FALSE, "oid", Some(Dec(0, 0)))>>
            /\ result' = ReturnedAck(AckOf(ret'[1]))
  /\ created' \in VenueCreates(last_inp', created)
  /\ UNCHANGED <<cfg_vars, op, broker_vars, order_vars, arg_vars, venue,
                 limit>>
  /\ UNCHANGED <<leverage, other_vars>>

(***************************************************************************)
(* get_order and get_open_orders.                                          *)
(***************************************************************************)
\* one loop iteration of the operation's _request for endpoint ep
OneRequest(ep) == \E inp \in Inputs(adapter) : RequestLoop(ep, inp)

\* the call is over and returns the single OrderAck r
ReturnAck(r) ==
  /\ phase' = "done"
  /\ ret' = <<r>>
  /\ result' = ReturnedAck(AckOf(r))

\* the call is over and returns the list rows
ReturnList(rows) ==
  /\ phase' = "done"
  /\ ret' = rows
  /\ result' = Returned

\* the call is over and raises what _request raised
RaiseRequestError ==
  /\ phase' = "done"
  /\ ret' = <<>>
  /\ result' = req_result'

\* the operation's _request call has not ended yet
StillRequesting == UNCHANGED <<phase, ret, result, venue>>

\* what the venue may hold for the order: after place_order of qty it has
\* executed no more than qty
OrderBodies ==
  {NoBody}
  \cup {Body(<<r>>) : r \in {x \in OrderRows :
                               prev = "placed" => DecLE(x.qty, params.qty)}}

\* Bybit: the OrderAck made from the answer b of /v5/order/realtime
BybitOrderAck(b) ==
  IF b.list = <<>> THEN ErrorRow
  ELSE IF ~b.list[1].parses THEN ErrorRow
  ELSE Row(TRUE, StatusMap(b.list[1].status), FALSE, "oid", Some(b.list[1].qty))

\* get_order is called with some order_id, or with the order_id of the
\* OrderAck place_order has just returned
CallGetOrder ==
  /\ \/ /\ phase = "idle"
        /\ order_id' \in {"None", "oid"}
        /\ prev' = "none"
     \/ /\ phase = "done"
        /\ op = "place_order"
        /\ result.kind = "return"
        /\ result.ack.ok
        /\ order_id' = ret[1].order_id
        /\ prev' = "placed"
  /\ op' = "get_order"
  /\ phase' = "get_order"
  /\ attempt' = 0
  /\ NoListArgs
  /\ info' = NoInfo
  /\ Fresh
  /\ UNCHANGED <<cfg_vars, params>>
  /\ UNCHANGED other_vars

GetOrder ==
  /\ phase = "get_order"
  /\ IF order_id = "None"
       THEN /\ ReturnAck(ErrorRow)
            /\ UNCHANGED <<req_vars, venue>>
       ELSE IF adapter = "lighter"
       THEN /\ venue' \in OrderBodies
            /\ ReturnAck(LighterAck("NEW", order_id))
            /\ UNCHANGED req_vars
       ELSE /\ OneRequest("order/realtime")
            /\ CASE req_result'.kind = "none" -> StillRequesting
                 [] req_result'.kind = "raise" ->
                      /\ ReturnAck(ErrorRow)
                      /\ UNCHANGED venue
                 [] OTHER ->
                      /\ venue' \in OrderBodies
                      /\ ReturnAck(BybitOrderAck(venue'))
  /\ UNCHANGED <<cfg_vars, op, broker_vars, order_vars, arg_vars, limit>>
  /\ UNCHANGED <<venue_vars, other_vars>>

\* Bybit: the list made from the answer b of /v5/order/realtime; a field
\* float() cannot convert raises inside the try, and the list is dropped
\* (mutation) the handler lets the exception through
Swallowed_Raises(e) == Raised(e)

\* except Exception as e: log; return []
Swallowed(e) == Returned

BybitOpenOrders(b) ==
  IF \E i \in 1..Len(b.list) : ~b.list[i].parses
    THEN <<>>
    ELSE [i \in 1..Len(b.list) |->
            Row(TRUE, StatusMap(b.list[i].status), FALSE, "oid",
                Some(b.list[i].qty))]

CallGetOpenOrders ==
  /\ phase = "idle"
  /\ op' = "get_open_orders"
  /\ phase' = "get_open_orders"
  /\ attempt' = 0
  /\ Fresh
  /\ NoArgs
  /\ UNCHANGED <<cfg_vars, params, info>>
  /\ UNCHANGED other_vars

GetOpenOrders ==
  /\ phase = "get_open_orders"
  /\ IF adapter = "lighter"
       THEN /\ venue' \in {Body(rows) : rows \in UpToTwo(OpenOrderRows)}
            /\ ReturnList(<<>>)
            /\ UNCHANGED req_vars
       ELSE /\ OneRequest("order/realtime")
            /\ CASE req_result'.kind = "none" -> StillRequesting
                 [] req_result'.kind = "raise" ->
                      /\ phase' = "done"
                      /\ ret' = <<>>
                      /\ result' = Swallowed(req_result'.exc)
                      /\ UNCHANGED venue
                 [] OTHER ->
                      /\ venue' \in {Body(rows) : rows \in UpToTwo(OpenOrderRows)}
                      /\ ReturnList(BybitOpenOrders(venue'))
  /\ UNCHANGED <<cfg_vars, op, broker_vars, order_vars, arg_vars, limit>>
  /\ UNCHANGED <<venue_vars, other_vars>>

(***************************************************************************)
(* amend_order and cancel_order.                                           *)
(***************************************************************************)
\* the (price, qty) arguments of amend_order, carried in an OrderParams;
\* a qty of 0 stands for qty=None as well
AmendArgs ==
  {OrderParams("amend", q, px) :
     q \in {Dec(0, 0), Dec(2, 3)}, px \in {None, Some(Dec(5, 1))}}

\* not price and not qty
NothingToAmend(p) == ~Truthy(p.price) /\ ~Truthy(Some(p.qty))

CallAmendOrder ==
  /\ phase = "idle"
  /\ op' = "amend_order"
  /\ phase' = "amend_order"
  /\ params' \in AmendArgs
  /\ order_id' = "oid"
  /\ prev' = "none"
  /\ attempt' = 0
  /\ NoListArgs
  /\ Fresh
  /\ UNCHANGED <<cfg_vars, info>>
  /\ UNCHANGED other_vars

AmendOrder ==
  /\ phase = "amend_order"
  /\ IF NothingToAmend(params)
       THEN /\ ReturnAck(ErrorRow)
            /\ UNCHANGED req_vars
       ELSE IF adapter = "lighter"
       THEN /\ ReturnAck(Row(TRUE, LowerCase("NEW"), FALSE, order_id, None))
            /\ UNCHANGED req_vars
       ELSE /\ OneRequest("order/amend")
            /\ CASE req_result'.kind = "none" -> UNCHANGED <<phase, ret, result>>
                 [] req_result'.kind = "raise" ->
                      ReturnAck(Row(FALSE, "none", TRUE, order_id, None))
                 [] OTHER ->
                      ReturnAck(Row(TRUE, "amended", FALSE, "oid", None))
  /\ UNCHANGED <<cfg_vars, op, broker_vars, order_vars, arg_vars, venue, limit>>
  /\ UNCHANGED <<venue_vars, other_vars>>

\* cancel_order is called with some order_id, or a second time on the order
\* a cancel_order call has just canceled
CallCancelOrder ==
  /\ \/ /\ phase = "idle"
        /\ order_id' \in {"None", "oid"}
        /\ prev' = "none"
     \/ /\ phase = "done"
        /\ op = "cancel_order"
        /\ prev = "none"
        /\ result.kind = "return"
        /\ result.ack.ok
        /\ order_id' = order_id
        /\ prev' = "canceled"
  /\ op' = "cancel_order"
  /\ phase' = "cancel_order"
  /\ attempt' = 0
  /\ NoListArgs
  /\ params' = NoParams
  /\ info' = NoInfo
  /\ Fresh
  /\ UNCHANGED cfg_vars
  /\ UNCHANGED other_vars

\* (mutation) cancel_order lets the error of _request through
CancelFailed_Raises(e) == Raised(e)

\* except Exception as e: return OrderAck(ok=False, error=str(e))
CancelFailed(e) == ReturnedAck(AckOf(ErrorRow))

CancelOrder ==
  /\ phase = "cancel_order"
  /\ IF order_id = "None"
       THEN /\ ReturnAck(ErrorRow)
            /\ UNCHANGED req_vars
       ELSE IF adapter = "lighter"
       THEN /\ ReturnAck(Row(TRUE, "canceled", FALSE, order_id, None))
            /\ UNCHANGED req_vars
       ELSE /\ OneRequest("order/cancel")
            /\ CASE req_result'.kind = "none" -> UNCHANGED <<phase, ret, result>>
                 [] req_result'.kind = "raise" ->
                      /\ phase' = "done"
                      /\ result' = CancelFailed(req_result'.exc)
                      /\ ret' = IF result'.kind = "return" THEN <<ErrorRow>> ELSE <<>>
                 [] OTHER ->
                      ReturnAck(Row(TRUE, "canceled", FALSE, "oid", None))
  /\ UNCHANGED <<cfg_vars, op, broker_vars, order_vars, arg_vars, venue, limit>>
  /\ UNCHANGED <<venue_vars, other_vars>>

(***************************************************************************)
(* place_orders_bulk.  Bybit: a list of more than ten orders is cut into   *)
(* batches of ten, handled one after the other; for each order of a batch  *)
(* get_symbol_info (a _request) and validate_order, outside any try; then  *)
(* one create-batch _request inside try/except.  Lighter: place_order for  *)
(* each order in turn.                                                     *)
(***************************************************************************)
\* Bybit: the length of orders[i:i+10]
BatchSize == 10

\* the number of orders of the batch whose last order is the n-th
BatchLen(n) == IF n = 0 THEN 0 ELSE n - ((n - 1) \div BatchSize) * BatchSize

BulkOrderLists ==
  LET A == OrderParams("market", Dec(2, 3), None)
      B == OrderParams("market", Dec(15, 4), None)
  IN {<<>>, <<A>>, <<A, A>>, <<A, B>>}

\* the entries of data.get("result", {}).get("list", []): an accepted
\* order, and a refused one with and without a non-empty retMsg
BatchItems ==
  {VRow("", Dec(0, 0), TRUE, 0, FALSE),
   VRow("", Dec(0, 0), TRUE, 10001, TRUE),
   VRow("", Dec(0, 0), TRUE, 10001, FALSE)}

\* the OrderAcks made from the answer b of /v5/order/create-batch
BulkAcks(b) ==
  [i \in 1..Len(b.list) |->
     Row(b.list[i].retCode = 0,
         IF b.list[i].retCode = 0 THEN "new" ELSE "rejected",
         b.list[i].retCode # 0 /\ b.list[i].retMsg,
         "oid", None)]

\* Lighter: the outcome of place_order for each order of the list
LighterBulk(os) == [i \in 1..Len(os) |-> validate_order(os[i], LighterSymbolInfo)]

\* a new _request call starts inside the operation
NextRequest ==
  /\ attempt' = 0
  /\ trace' = <<>>
  /\ sleeps' = <<>>
  /\ req_result' = NoResult
  /\ UNCHANGED <<last_inp, sent>>

CallPlaceOrdersBulk ==
  /\ phase = "idle"
  /\ op' = "place_orders_bulk"
  /\ orders' \in BulkOrderLists
  /\ checked' = 0
  /\ phase' = IF adapter = "lighter" THEN "bulk_lighter"
              ELSE IF orders' = <<>> THEN "bulk_send" ELSE "bulk_info"
  /\ order_id' = "none"
  /\ prev' = "none"
  /\ depth' = 0
  /\ x_arg' = 0
  /\ venue' = NoBody
  /\ attempt' = 0
  /\ Fresh
  /\ UNCHANGED <<cfg_vars, params, info>>
  /\ UNCHANGED other_vars

\* Lighter: [self.place_order(p) for p in orders]
BulkLighter ==
  /\ phase = "bulk_lighter"
  /\ LET vs == LighterBulk(orders)
     IN IF \E i \in 1..Len(vs) : vs[i] # "ok"
          THEN /\ phase' = "done"
               /\ ret' = <<>>
               /\ result' = Raised(LocalError)
          ELSE ReturnList([i \in 1..Len(orders) |-> LighterAck("NEW", "None")])
  /\ UNCHANGED <<cfg_vars, op, req_vars, broker_vars, order_vars, arg_vars,
                 venue, limit>>
  /\ UNCHANGED <<venue_vars, other_vars>>

\* Bybit: one loop iteration of the _request of get_symbol_info for the
\* next order of the list
BulkSymbolInfo ==
  /\ phase = "bulk_info"
  /\ OneRequest("instruments-info")
  /\ \E body \in {NoInfo, SymbolInfo(Dec(5, 1), Dec(1, 3), Some(Dec(1, 3)))} :
       CASE req_result'.kind = "none" ->
              /\ body = NoInfo
              /\ UNCHANGED <<phase, info, result>>
         [] req_result'.kind = "raise" ->
              /\ body = NoInfo
              /\ phase' = "done"
              /\ result' = req_result'
              /\ UNCHANGED info
         [] req_result'.kind = "return" /\ body = NoInfo ->
              /\ phase' = "done"
              /\ result' = Raised(LocalError)
              /\ UNCHANGED info
         [] OTHER ->
              /\ phase' = "bulk_validate"
              /\ info' = body
              /\ UNCHANGED result
  /\ UNCHANGED <<cfg_vars, op, broker_vars, params, v_result, arg_vars,
                 out_vars>>
  /\ UNCHANGED <<venue_vars, other_vars>>

\* Bybit: validate_order for the next order of the list, then the next
\* order's get_symbol_info or the create-batch request
BulkValidate ==
  /\ phase = "bulk_validate"
  /\ v_result' = validate_order(orders[checked + 1], info)
  /\ IF v_result' # "ok"
       THEN /\ phase' = "done"
            /\ result' = Raised(LocalError)
            /\ UNCHANGED <<req_vars, checked>>
       ELSE /\ checked' = checked + 1
            /\ phase' = IF checked' = Len(orders) \/ checked' % BatchSize = 0
                         THEN "bulk_send" ELSE "bulk_info"
            /\ NextRequest
            /\ UNCHANGED result
  /\ UNCHANGED <<cfg_vars, op, broker_vars, params, info, order_id, depth,
                 prev, orders, x_arg, out_vars>>
  /\ UNCHANGED <<venue_vars, other_vars>>

\* results.extend(...) of the batch's OrderAcks; the call returns after
\* the last batch
ExtendList(rows) ==
  /\ ret' = ret \o rows
  /\ IF checked = Len(orders)
       THEN /\ phase' = "done"
            /\ result' = Returned
       ELSE /\ phase' = "bulk_extend"
            /\ UNCHANGED result

\* Bybit: one loop iteration of the create-batch _request of the batch that
\* ends at the order last validated; its outcome is turned into the list of
\* OrderAcks
BulkSend ==
  /\ phase = "bulk_send"
  /\ OneRequest("order/create-batch")
  /\ CASE req_result'.kind = "none" -> StillRequesting
       [] req_result'.kind = "raise" ->
            /\ ExtendList([i \in 1..BatchLen(checked) |-> ErrorRow])
            /\ UNCHANGED venue
       [] OTHER ->
            /\ venue' \in {Body(rows) : rows \in UpToTwo(BatchItems)}
            /\ ExtendList(BulkAcks(venue'))
  /\ UNCHANGED <<cfg_vars, op, broker_vars, order_vars, arg_vars, limit>>
  /\ UNCHANGED <<venue_vars, other_vars>>

(***************************************************************************)
(* get_positions.                                                          *)
(***************************************************************************)
\* an exception raised while the answer is converted (float() of a string
\* that is no number, a name that is not defined): not a typed error
UntypedError == [type |-> "Other", attempt |-> -1, wrapped |-> FALSE]

\* the position sizes the venue reports ("0" and "0.000" are both flat)
VenueSizes == {Dec(0, 0), Dec(0, 3), Dec(1, 3), Dec(2, 1)}

PositionRows ==
  {VRow("", q, TRUE, 0, FALSE) : q \in VenueSizes}
  \cup {VRow("", Dec(0, 0), FALSE, 0, FALSE)}

\* float(p.get("size", 0)) == 0
IsZero(q) == FromDecimal(q).m = <<>>

\* (mutation) no position is skipped
SkipFlat_Never(q) == FALSE

\* if size == 0: continue
SkipFlat(q) == IsZero(q)

\* the Position made from one entry of the venue's list
PositionOf(r) == Row(TRUE, "none", FALSE, "none", Some(r.qty))

\* Bybit: the list built from the entries rows
RECURSIVE BybitPositions(_)
BybitPositions(rows) ==
  IF rows = <<>> THEN <<>>
  ELSE IF SkipFlat(rows[1].qty) THEN BybitPositions(Tail(rows))
  ELSE <<PositionOf(rows[1])>> \o BybitPositions(Tail(rows))

CallGetPositions ==
  /\ phase = "idle"
  /\ op' = "get_positions"
  /\ phase' = "get_positions"
  /\ attempt' = 0
  /\ Fresh
  /\ NoArgs
  /\ UNCHANGED <<cfg_vars, params, info>>
  /\ UNCHANGED other_vars

GetPositions ==
  /\ phase = "get_positions"
  /\ IF adapter = "lighter"
       THEN /\ venue' \in {Body(rows) : rows \in UpToTwo(PositionRows)}
            /\ ReturnList(<<>>)
            /\ UNCHANGED req_vars
       ELSE /\ OneRequest("position/list")
            /\ CASE req_result'.kind = "none" -> StillRequesting
                 [] req_result'.kind = "raise" ->
                      /\ RaiseRequestError
                      /\ UNCHANGED venue
                 [] OTHER ->
                      /\ venue' \in {Body(rows) : rows \in UpToTwo(PositionRows)}
                      /\ IF \E i \in 1..Len(venue'.list) : ~venue'.list[i].parses
                           THEN /\ phase' = "done"
                                /\ ret' = <<>>
                                /\ result' = Raised(UntypedError)
                           ELSE ReturnList(BybitPositions(venue'.list))
  /\ UNCHANGED <<cfg_vars, op, broker_vars, order_vars, arg_vars, limit>>
  /\ UNCHANGED <<venue_vars, other_vars>>

(***************************************************************************)
(* The market and account queries.  Bybit: one _request outside any try,   *)
(* then the answer is converted; Lighter: no request is made.              *)
(***************************************************************************)
\* raise NonRetryableError(f"No ticker data for {symbol}")
NoDataError == [type |-> "NonRetryableError", attempt |-> -1, wrapped |-> FALSE]

\* what the venue answers a query: no entry, an entry whose numbers parse,
\* an entry with a field that float() does not take (such as "")
QueryBodies ==
  {Body(<<>>),
   Body(<<VRow("", Dec(1, 3), TRUE, 0, FALSE)>>),
   Body(<<VRow("", Dec(0, 0), FALSE, 0, FALSE)>>)}

CallQuery(name) ==
  /\ phase = "idle"
  /\ op' = name
  /\ phase' = name
  /\ attempt' = 0
  /\ Fresh
  /\ order_id' = "none"
  /\ prev' = "none"
  /\ orders' = <<>>
  /\ checked' = 0
  /\ x_arg' = 0
  /\ venue' = NoBody
  /\ UNCHANGED <<cfg_vars, params, info>>
  /\ UNCHANGED other_vars

\* the query returns without having asked the venue
LocalAnswer ==
  /\ ReturnList(<<>>)
  /\ UNCHANGED <<req_vars, venue>>

\* the conversion of the answer b: needs_entry says that the handler
\* raises NonRetryableError when the answer's list is empty
Converted(b, needs_entry) ==
  IF needs_entry /\ b.list = <<>> THEN Raised(NoDataError)
  ELSE IF \E i \in 1..Len(b.list) : ~b.list[i].parses THEN Raised(UntypedError)
  ELSE Returned

\* data = self._request("GET", ep, ...) and the conversion of data
BybitQuery(ep, needs_entry) ==
  /\ OneRequest(ep)
  /\ CASE req_result'.kind = "none" -> StillRequesting
       [] req_result'.kind = "raise" ->
            /\ RaiseRequestError
            /\ UNCHANGED venue
       [] OTHER ->
            /\ venue' \in QueryBodies
            /\ phase' = "done"
            /\ ret' = <<>>
            /\ result' = Converted(venue', needs_entry)

QueryFrame == UNCHANGED <<cfg_vars, op, broker_vars, order_vars, arg_vars>>

CallGetTicker == CallQuery("get_ticker") /\ depth' = 0

\* Lighter's get_ticker reads names that are never assigned (last, mark,
\* index, last_ts, raw_pack): NameError on every call
GetTicker ==
  /\ phase = "get_ticker"
  /\ IF adapter = "lighter"
       THEN /\ phase' = "done"
            /\ ret' = <<>>
            /\ result' = Raised(UntypedError)
            /\ UNCHANGED <<req_vars, venue>>
       ELSE BybitQuery("market/tickers", TRUE)
  /\ QueryFrame
  /\ UNCHANGED limit
  /\ UNCHANGED <<venue_vars, other_vars>>

CallGetFundingInfo == CallQuery("get_funding_info") /\ depth' = 0

GetFundingInfo ==
  /\ phase = "get_funding_info"
  /\ IF adapter = "lighter" THEN LocalAnswer
     ELSE BybitQuery("market/tickers", TRUE)
  /\ QueryFrame
  /\ UNCHANGED limit
  /\ UNCHANGED <<venue_vars, other_vars>>

CallGetSymbolInfo == CallQuery("get_symbol_info") /\ depth' = 0

GetSymbolInfo ==
  /\ phase = "get_symbol_info"
  /\ IF adapter = "lighter" THEN LocalAnswer
     ELSE BybitQuery("market/instruments-info", TRUE)
  /\ QueryFrame
  /\ UNCHANGED limit
  /\ UNCHANGED <<venue_vars, other_vars>>

CallGetBalances == CallQuery("get_balances") /\ depth' = 0

GetBalances ==
  /\ phase = "get_balances"
  /\ IF adapter = "lighter" THEN LocalAnswer
     ELSE BybitQuery("account/wallet-balance", FALSE)
  /\ QueryFrame
  /\ UNCHANGED limit
  /\ UNCHANGED <<venue_vars, other_vars>>

(***************************************************************************)
(* get_orderbook(symbol, depth).                                           *)
(***************************************************************************)
\* valid_depths = [1, 25, 50, 100, 200, 500]
ValidDepths == <<1, 25, 50, 100, 200, 500>>

\* (mutation) on a tie the larger depth: the last element of valid_depths
\* whose distance to d is the least
NearestDepth_TieLarger(d) ==
  LET n == Len(ValidDepths)
      key(i) == Abs(ValidDepths[i] - d)
  IN ValidDepths[CHOOSE i \in 1..n :
                   /\ \A j \in 1..n : key(i) <= key(j)
                   /\ \A j \in (i + 1)..n : key(j) > key(i)]

\* limit = min(valid_depths, key=lambda x: abs(x - depth)): min returns the
\* first element of valid_depths whose key is the least
NearestDepth(d) ==
  LET n == Len(ValidDepths)
      key(i) == Abs(ValidDepths[i] - d)
  IN ValidDepths[CHOOSE i \in 1..n :
                   /\ \A j \in 1..n : key(i) <= key(j)
                   /\ \A j \in 1..(i - 1) : key(j) > key(i)]

\* the depths asked for in the adapter's behaviours: the default, a depth
\* halfway between two valid ones, a depth beyond the largest
SomeDepths == {50, 13, 600}

CallGetOrderbook ==
  /\ CallQuery("get_orderbook")
  /\ depth' \in SomeDepths

GetOrderbook ==
  /\ phase = "get_orderbook"
  /\ IF adapter = "lighter"
       THEN /\ LocalAnswer
            /\ UNCHANGED limit
       ELSE /\ limit' = NearestDepth(depth)
            /\ BybitQuery("market/orderbook", FALSE)
  /\ QueryFrame
  /\ UNCHANGED <<venue_vars, other_vars>>

(***************************************************************************)
(* get_fills: Bybit's request and conversion are inside try/except.        *)
(***************************************************************************)
CallGetFills == CallQuery("get_fills") /\ depth' = 0

GetFills ==
  /\ phase = "get_fills"
  /\ IF adapter = "lighter" THEN LocalAnswer
     ELSE /\ OneRequest("execution/list")
          /\ CASE req_result'.kind = "none" -> StillRequesting
               [] req_result'.kind = "raise" ->
                    /\ phase' = "done"
                    /\ ret' = <<>>
                    /\ result' = Swallowed(req_result'.exc)
                    /\ UNCHANGED venue
               [] OTHER ->
                    /\ venue' \in QueryBodies
                    /\ phase' = "done"
                    /\ ret' = <<>>
                    /\ result' =
                         IF \E i \in 1..Len(venue'.list) : ~venue'.list[i].parses
                           THEN Swallowed(UntypedError)
                           ELSE Returned
  /\ QueryFrame
  /\ UNCHANGED limit
  /\ UNCHANGED <<venue_vars, other_vars>>

(***************************************************************************)
(* ws_sub_private: both adapters raise NotImplementedError before anything *)
(* is connected or registered; no code reconnects or reconciles a stream.  *)
(***************************************************************************)
\* raise NotImplementedError("WS private not implemented yet")
NotImplemented ==
  [type |-> "NotImplementedError", attempt |-> -1, wrapped |-> FALSE]

CallWsSubPrivate == CallQuery("ws_sub_private") /\ depth' = 0

WsSubPrivate ==
  /\ phase = "ws_sub_private"
  /\ phase' = "done"
  /\ ret' = <<>>
  /\ result' = Raised(NotImplemented)
  /\ UNCHANGED <<req_vars, venue, limit>>
  /\ QueryFrame
  /\ UNCHANGED <<venue_vars, other_vars>>

\* --- set_leverage, set_margin_mode, cancel_all ---------------------------

\* the values of x the callers pass
Leverages == {5, 20}

\* "buyLeverage": "10", "sellLeverage": "10" of set_margin_mode's request
MarginModeLeverage == 10

\* return True / return False
ReturnBool(b) ==
  /\ phase' = "done"
  /\ ret' = <<b>>
  /\ result' = Returned

CallSetLeverage ==
  /\ phase = "idle"
  /\ op' = "set_leverage"
  /\ phase' = "set_leverage"
  /\ x_arg' \in Leverages
  /\ attempt' = 0
  /\ Fresh
  /\ order_id' = "none"
  /\ prev' = "none"
  /\ depth' = 0
  /\ orders' = <<>>
  /\ checked' = 0
  /\ venue' = NoBody
  /\ UNCHANGED <<cfg_vars, params, info>>
  /\ UNCHANGED other_vars

\* Bybit: one loop iteration of the set-leverage _request, whose exception
\* nothing catches.  Lighter: return True.
SetLeverage ==
  /\ phase = "set_leverage"
  /\ IF adapter = "lighter"
       THEN /\ ReturnBool(TRUE)
            /\ UNCHANGED <<req_vars, leverage>>
       ELSE /\ OneRequest("position/set-leverage")
            /\ CASE req_result'.kind = "none" ->
                      UNCHANGED <<phase, ret, result, leverage>>
                 [] req_result'.kind = "raise" ->
                      /\ RaiseRequestError
                      /\ UNCHANGED leverage
                 [] OTHER ->
                      /\ ReturnBool(TRUE)
                      /\ leverage' = x_arg
  /\ UNCHANGED <<venue, limit, created>>
  /\ QueryFrame
  /\ UNCHANGED other_vars

\* set_margin_mode is called on an idle adapter, or right after a
\* set_leverage call of the same symbol that returned True
CallSetMarginMode ==
  \/ /\ CallQuery("set_margin_mode")
     /\ depth' = 0
     /\ x_arg' = 0
  \/ /\ phase = "done"
     /\ op = "set_leverage"
     /\ result.kind = "return"
     /\ op' = "set_margin_mode"
     /\ phase' = "set_margin_mode"
     /\ prev' = "leveraged"
     /\ attempt' = 0
     /\ trace' = <<>>
     /\ sleeps' = <<>>
     /\ req_result' = NoResult
     /\ last_inp' = NoInput
     /\ sent' = <<>>
     /\ ret' = <<>>
     /\ result' = NoResult
     /\ UNCHANGED <<cfg_vars, broker_vars, order_vars, order_id, depth,
                    orders, checked, x_arg, venue, limit, venue_vars>>
     /\ UNCHANGED other_vars

\* Bybit: one loop iteration of the switch-isolated _request, which carries
\* the literal leverage 10.  Lighter: return True.
SetMarginMode ==
  /\ phase = "set_margin_mode"
  /\ IF adapter = "lighter"
       THEN /\ ReturnBool(TRUE)
            /\ UNCHANGED <<req_vars, leverage>>
       ELSE /\ OneRequest("position/switch-isolated")
            /\ CASE req_result'.kind = "none" ->
                      UNCHANGED <<phase, ret, result, leverage>>
                 [] req_result'.kind = "raise" ->
                      /\ RaiseRequestError
                      /\ UNCHANGED leverage
                 [] OTHER ->
                      /\ ReturnBool(TRUE)
                      /\ leverage' = MarginModeLeverage
  /\ UNCHANGED <<venue, limit, created>>
  /\ QueryFrame
  /\ UNCHANGED other_vars

CallCancelAll == CallQuery("cancel_all") /\ depth' = 0

\* Bybit: one loop iteration of the cancel-all _request inside try/except
\* Exception, which returns False.  Lighter: return True.
CancelAll ==
  /\ phase = "cancel_all"
  /\ IF adapter = "lighter"
       THEN /\ ReturnBool(TRUE)
            /\ UNCHANGED req_vars
       ELSE /\ OneRequest("order/cancel-all")
            /\ CASE req_result'.kind = "none" -> UNCHANGED <<phase, ret, result>>
                 [] req_result'.kind = "raise" -> ReturnBool(FALSE)
                 [] OTHER -> ReturnBool(TRUE)
  /\ UNCHANGED <<venue, limit>>
  /\ QueryFrame
  /\ UNCHANGED <<venue_vars, other_vars>>

\* the caller takes the outcome; the adapter is idle again
Finish ==
  /\ phase = "done"
  /\ op' = "none"
  /\ phase' = "idle"
  /\ attempt' = 0
  /\ Fresh
  /\ NoArgs
  /\ params' = NoParams
  /\ info' = NoInfo
  /\ UNCHANGED cfg_vars
  /\ UNCHANGED other_vars

(***************************************************************************)
(* The Broker facade.  Each of its operations is one adapter call under    *)
(* the decorator                                                           *)
(*   retryable = retry(stop=stop_after_attempt(3),                         *)
(*                     wait=wait_exponential(multiplier=0.2, max=2.0))     *)
(* The decorator is given no retry= and no reraise= argument, so it        *)
(* retries after every exception and, when it stops, raises RetryError     *)
(* holding the last attempt.                                               *)
(***************************************************************************)
BrokerOps == {"query_price", "query_balance", "query_funding",
              "query_fee_schedule", "place_limit", "place_market", "cancel"}

\* stop_after_attempt(3)
StopAfterAttempt == 3

\* the decorator's stop condition after attempt number n
BrokerStop(n) == n >= StopAfterAttempt

\* the decorator's retry condition on the exception of an attempt
BrokerRetryIf(e) == e.type \in ExcTypes

\* the exception raised when the decorator stops after exception e
RetryError(e) == [type |-> "RetryError", attempt |-> e.attempt, wrapped |-> TRUE]

CallBroker ==
  /\ phase = "idle"
  /\ op' \in BrokerOps
  /\ phase' = "broker"
  /\ attempt' = 1
  /\ Fresh
  /\ NoArgs
  /\ UNCHANGED <<cfg_vars, params, info>>
  /\ UNCHANGED other_vars

\* one attempt of the decorated method: the adapter call returns or raises
\* What one ex.place_order(req) made by place_limit or place_market does
\* at the venue.  A call that returned sent one create request, which the
\* venue accepted or refused; a call that raised NonRetryableError was
\* refused (by validate_order or by the venue); a call that raised anything
\* else may have lost the answer of an accepted request.  The other
\* operations of the Broker create nothing.
AdapterCreates(o, e, n) ==
  IF o \notin {"place_limit", "place_market"} THEN {n}
  ELSE IF e # NoExc /\ e.type = "NonRetryableError" THEN {n}
  ELSE {n, n + 1}

BrokerAttempt ==
  /\ phase = "broker"
  /\ \E out \in {"none"} \cup ExcTypes :
       LET e == IF out = "none" THEN NoExc ELSE Exc(out, attempt)
       IN /\ b_calls' = Append(b_calls, e)
          /\ IF e = NoExc
               THEN /\ result' = Returned
                    /\ phase' = "done"
                    /\ UNCHANGED <<attempt, b_sleeps>>
               ELSE IF ~BrokerRetryIf(e)
               THEN /\ result' = Raised(e)
                    /\ phase' = "done"
                    /\ UNCHANGED <<attempt, b_sleeps>>
               ELSE IF BrokerStop(attempt)
               THEN /\ result' = Raised(RetryError(e))
                    /\ phase' = "done"
                    /\ UNCHANGED <<attempt, b_sleeps>>
               ELSE /\ b_sleeps' = b_sleeps + 1
                    /\ attempt' = attempt + 1
                    /\ UNCHANGED <<phase, result>>
  /\ created' \in AdapterCreates(op, b_calls'[Len(b_calls')], created)
  /\ UNCHANGED <<cfg_vars, op, trace, sleeps, req_result, last_inp, sent,
                 order_vars, arg_vars, out_vars>>
  /\ UNCHANGED <<leverage, other_vars>>

Next ==
  \/ CallRequest
  \/ RequestAttempt
  \/ CallPlaceOrder
  \/ PlaceOrderSymbolInfo
  \/ PlaceOrderValidate
  \/ PlaceOrderCreate
  \/ CallGetOrder
  \/ GetOrder
  \/ CallGetOpenOrders
  \/ GetOpenOrders
  \/ CallAmendOrder
  \/ AmendOrder
  \/ CallCancelOrder
  \/ CancelOrder
  \/ CallPlaceOrdersBulk
  \/ BulkLighter
  \/ BulkSymbolInfo
  \/ BulkValidate
  \/ BulkSend
  \/ CallGetPositions
  \/ GetPositions
  \/ CallGetTicker
  \/ GetTicker
  \/ CallGetFundingInfo
  \/ GetFundingInfo
  \/ CallGetSymbolInfo
  \/ GetSymbolInfo
  \/ CallGetBalances
  \/ GetBalances
  \/ CallGetOrderbook
  \/ GetOrderbook
  \/ CallGetFills
  \/ GetFills
  \/ CallWsSubPrivate
  \/ WsSubPrivate
  \/ CallSetLeverage
  \/ SetLeverage
  \/ CallSetMarginMode
  \/ SetMarginMode
  \/ CallCancelAll
  \/ CancelAll
  \/ CallBroker
  \/ BrokerAttempt
  \/ Finish

Spec == Init /\ [][Next]_vars

(***************************************************************************)
(* validate_order on its own: the order and the symbol info are drawn from *)
(* bounded sets and the validator is applied to them.                      *)
(***************************************************************************)
ValidatedQtys == {Dec(n, d) : n \in 0..MaxQtyUnits, d \in {1, 3, 4}}

ValidatedPrices == {None, Some(Dec(5, 1)), Some(Dec(7, 1))}

ValidatedOrders ==
  {OrderParams(t, q, px) :
     t \in {"limit", "market"}, q \in ValidatedQtys, px \in ValidatedPrices}

ValidatedInfos ==
  {SymbolInfo(Dec(5, 1), step, minq) :
     step \in {Dec(1, 1), Dec(1, 3), Dec(5, 4)},
     minq \in {None, Some(Dec(1, 3))}}

\* validate_order is BaseExchange's: the adapter and its cfg play no part
InitValidate ==
  /\ adapter = "bybit"
  /\ max_retries = 0
  /\ retry_backoff = 1
  /\ Idle

CallValidate ==
  /\ phase = "idle"
  /\ op' = "validate_order"
  /\ phase' = "validate_order"
  /\ params' \in ValidatedOrders
  /\ info' \in ValidatedInfos
  /\ attempt' = 0
  /\ Fresh
  /\ NoArgs
  /\ UNCHANGED cfg_vars
  /\ UNCHANGED other_vars

ValidateOrder ==
  /\ phase = "validate_order"
  /\ v_result' = validate_order(params, info)
  /\ result' = IF v_result' = "ok" THEN Returned ELSE Raised(LocalError)
  /\ phase' = "done"
  /\ UNCHANGED <<cfg_vars, op, req_vars, broker_vars, params, info, arg_vars,
                 out_vars>>
  /\ UNCHANGED <<venue_vars, other_vars>>

NextValidate == CallValidate \/ ValidateOrder \/ Finish

SpecValidate == InitValidate /\ [][NextValidate]_vars

(***************************************************************************)
(* Bybit's get_orderbook on its own, for every depth of a range around the *)
(* valid depths.                                                           *)
(***************************************************************************)
\* depth ranges over -MaxDepth..MaxDepth
MaxDepth == 520

Depths == (0 - MaxDepth)..MaxDepth

InitDepth ==
  /\ adapter = "bybit"
  /\ max_retries = 0
  /\ retry_backoff = 1
  /\ Idle

CallGetOrderbookAny ==
  /\ CallQuery("get_orderbook")
  /\ depth' \in Depths

NextDepth == CallGetOrderbookAny \/ GetOrderbook \/ Finish

SpecDepth == InitDepth /\ [][NextDepth]_vars

(***************************************************************************)
(* Two threads inside _request of one adapter instance.  __init__ makes    *)
(* self._lock = threading.Lock(); no method acquires it.  Bybit takes the  *)
(* timestamp (self._ts_ms(), which reads self._clock_skew_ms) and then     *)
(* signs; Lighter's _headers signs and then takes the timestamp.  The      *)
(* clock moves between any two steps.                                      *)
(***************************************************************************)
\* the clock shows 0..MaxClock milliseconds
MaxClock == 3

\* the threads sign at most MaxSigned + 1 requests
MaxSigned == 2

\* self._clock_skew_ms = 0; nothing assigns it afterwards
ClockSkew == 0

\* int(time.time() * 1000) + self._clock_skew_ms
TsMs == clock + ClockSkew

\* the first step of request construction with auth=True
FirstStep(a) == IF a = "bybit" THEN "timestamp" ELSE "sign"

InitLock ==
  /\ adapter \in {"bybit", "lighter"}
  /\ max_retries = 0
  /\ retry_backoff = 1
  /\ Idle

LockFrame == UNCHANGED <<adapter_vars, symbol_vars, sentinel_vars>>

\* thread t calls _request; with auth=False nothing is signed
RequestEnter ==
  /\ Len(signed) < MaxSigned
  /\ \E t \in Threads, auth \in BOOLEAN :
       /\ pc[t] = "idle"
       /\ pc' = [pc EXCEPT ![t] = IF auth THEN FirstStep(adapter) ELSE "http"]
       /\ stamp' = [stamp EXCEPT ![t] = 0]
  /\ UNCHANGED <<lock, signed, clock>>
  /\ LockFrame

\* timestamp = self._ts_ms()
RequestTimestamp ==
  /\ \E t \in Threads :
       /\ pc[t] = "timestamp"
       /\ stamp' = [stamp EXCEPT ![t] = TsMs]
       /\ pc' = [pc EXCEPT ![t] = IF adapter = "bybit" THEN "sign" ELSE "http"]
  /\ UNCHANGED <<lock, signed, clock>>
  /\ LockFrame

\* signature = self._sign(...)
RequestSign ==
  /\ \E t \in Threads :
       /\ pc[t] = "sign"
       /\ signed' = Append(signed, [thread |-> t, ts |-> stamp[t]])
       /\ pc' = [pc EXCEPT ![t] = IF adapter = "bybit" THEN "http" ELSE "timestamp"]
  /\ UNCHANGED <<lock, stamp, clock>>
  /\ LockFrame

\* the retry loop: self._http.get / post / request, then _request is left
RequestHttp ==
  /\ \E t \in Threads :
       /\ pc[t] = "http"
       /\ pc' = [pc EXCEPT ![t] = "idle"]
  /\ UNCHANGED <<lock, stamp, signed, clock>>
  /\ LockFrame

\* a millisecond passes
ClockTick ==
  /\ clock < MaxClock
  /\ clock' = clock + 1
  /\ UNCHANGED <<lock, pc, stamp, signed>>
  /\ LockFrame

NextLock ==
  \/ RequestEnter
  \/ RequestTimestamp
  \/ RequestSign
  \/ RequestHttp
  \/ ClockTick

SpecLock == InitLock /\ [][NextLock]_vars

(***************************************************************************)
(* Symbol translation.  A dict is the set of its <<key, value>> items.     *)
(***************************************************************************)

\* dict.get(k, k)
Get(d, k) == IF \E it \in d : it[1] = k
             THEN (CHOOSE it \in d : it[1] = k)[2]
             ELSE k

\* {v: k for k, v in d.items()}
Inverse(d) == {<<it[2], it[1]>> : it \in d}

\* the module constant SYMBOL_ALIASES of each adapter
SYMBOL_ALIASES(a) ==
  IF a = "bybit" THEN {}
  ELSE {<<"BTCUSDT", "BTC-PERP">>, <<"ETHUSDT", "ETH-PERP">>}

\* the module constant REVERSE_ALIASES
REVERSE_ALIASES(a) == Inverse(SYMBOL_ALIASES(a))

\* self._symbol_map as __init__ leaves it: Bybit binds SYMBOL_ALIASES, Lighter
\* an empty dict of its own
SymbolMap(a) == IF a = "bybit" THEN SYMBOL_ALIASES(a) ELSE {}

\* _map_symbol_out
MapSymbolOut(a, s) == Get(SymbolMap(a), s)

\* _map_symbol_in: Bybit reads REVERSE_ALIASES, Lighter inverts self._symbol_map
MapSymbolIn(a, v) ==
  IF a = "bybit" THEN Get(REVERSE_ALIASES(a), v)
  ELSE Get(Inverse(SymbolMap(a)), v)

\* the operations that turn their symbol argument into a venue symbol
TranslatingOps(a) ==
  {"get_ticker", "get_orderbook", "get_funding_info", "get_symbol_info",
   "set_leverage", "set_margin_mode", "place_order", "amend_order",
   "cancel_order", "get_order", "get_fills"}
  \cup IF a = "bybit"
       THEN {"get_positions", "get_open_orders", "place_orders_bulk",
             "cancel_all"}
       ELSE {}

\* the venue symbol operation o makes of s: every operation calls
\* _map_symbol_out, except Lighter's get_ticker, which reads SYMBOL_ALIASES
VenueSymbol(a, o, s) ==
  IF a = "lighter" /\ o = "get_ticker" THEN Get(SYMBOL_ALIASES(a), s)
  ELSE MapSymbolOut(a, s)

StandardSymbols == {"BTCUSDT", "ETHUSDT", "SOLUSDT"}

SymbolFrame ==
  UNCHANGED <<cfg_vars, req_vars, broker_vars, order_vars, arg_vars,
              out_vars, result, venue_vars, lock_vars, sentinel_vars>>

InitSymbol ==
  /\ adapter \in {"bybit", "lighter"}
  /\ max_retries = 0
  /\ retry_backoff = 1
  /\ Idle

\* an operation is called with a standard symbol
SymbolCall ==
  /\ phase = "idle"
  /\ \E o \in TranslatingOps(adapter), s \in StandardSymbols :
       /\ op' = o
       /\ symbol' = s
  /\ phase' = "called"
  /\ ex_symbol' = ""
  /\ std_symbol' = ""
  /\ SymbolFrame

\* the first statement of the operation: standard symbol -> venue symbol
SymbolOut ==
  /\ phase = "called"
  /\ ex_symbol' = VenueSymbol(adapter, op, symbol)
  /\ phase' = "out"
  /\ UNCHANGED <<op, symbol, std_symbol>>
  /\ SymbolFrame

\* a row of the venue about that symbol comes back: venue symbol -> standard
SymbolIn ==
  /\ phase = "out"
  /\ std_symbol' = MapSymbolIn(adapter, ex_symbol)
  /\ phase' = "in"
  /\ UNCHANGED <<op, symbol, ex_symbol>>
  /\ SymbolFrame

SymbolReturn ==
  /\ phase = "in"
  /\ op' = "none"
  /\ phase' = "idle"
  /\ symbol' = ""
  /\ ex_symbol' = ""
  /\ std_symbol' = ""
  /\ SymbolFrame

NextSymbol == SymbolCall \/ SymbolOut \/ SymbolIn \/ SymbolReturn

SpecSymbol == InitSymbol /\ [][NextSymbol]_vars

(***************************************************************************)
(* place_orders_bulk of Bybit with lists of more than ten orders.          *)
(***************************************************************************)
MaxOrders == 12

\* lists of valid orders of every length, and lists with one order that
\* fails validate_order, in the first batch or in the second
LongOrderLists ==
  LET A == OrderParams("market", Dec(2, 3), None)
      B == OrderParams("market", Dec(15, 4), None)
  IN {[i \in 1..n |-> A] : n \in 0..MaxOrders}
     \cup UNION {{[i \in 1..n |-> IF i = k THEN B ELSE A] :
                     k \in {1, BatchSize + 1} \cap 1..n} : n \in 1..MaxOrders}

InitBulk ==
  /\ adapter = "bybit"
  /\ max_retries = 0
  /\ retry_backoff = 1
  /\ Idle

CallPlaceOrdersBulkLong ==
  /\ phase = "idle"
  /\ op' = "place_orders_bulk"
  /\ orders' \in LongOrderLists
  /\ checked' = 0
  /\ phase' = IF orders' = <<>> THEN "bulk_send" ELSE "bulk_info"
  /\ order_id' = "none"
  /\ prev' = "none"
  /\ depth' = 0
  /\ x_arg' = 0
  /\ venue' = NoBody
  /\ attempt' = 0
  /\ Fresh
  /\ UNCHANGED <<cfg_vars, params, info>>
  /\ UNCHANGED other_vars

\* for i in range(0, len(orders), 10): the next batch begins
BulkExtend ==
  /\ phase = "bulk_extend"
  /\ phase' = "bulk_info"
  /\ NextRequest
  /\ UNCHANGED <<cfg_vars, op, broker_vars, order_vars, arg_vars, out_vars,
                 result>>
  /\ UNCHANGED <<venue_vars, other_vars>>

NextBulk ==
  \/ CallPlaceOrdersBulkLong
  \/ BulkSymbolInfo
  \/ BulkValidate
  \/ BulkSend
  \/ BulkExtend
  \/ Finish

SpecBulk == InitBulk /\ [][NextBulk]_vars

(***************************************************************************)
(* SentinelEngine: update and reset_cooldown.  Time is counted in ticks,   *)
(* TicksPerSecond of them to the second, so that int(time()) drops a       *)
(* fraction.                                                               *)
(***************************************************************************)
TicksPerSecond == 2

MaxCooldown == 2

MaxElapsed == 9

MaxFired == 3

\* cfg["score_thresholds"], as defaulted by __init__
TightenThreshold == 60

PauseThreshold == 80

Scores == {0, 59, 60, 79, 80, 100}

Escalations == {"tighten", "pause"}

\* int(time()) for the clock reading t
IntTime(t) == t \div TicksPerSecond

\* time() counts from 1970: the clock of a running engine reads more
\* seconds than any cooldown
StartTime == (MaxCooldown + 1) * TicksPerSecond

MaxNow == StartTime + MaxElapsed

\* level = "normal" / "pause" / "tighten" of a score
LevelOf(score) ==
  IF score >= PauseThreshold THEN "pause"
  ELSE IF score >= TightenThreshold THEN "tighten"
  ELSE "normal"

\* (mutation) a call exactly cooldown_sec after the escalation is suppressed
InCooldown_Inclusive(n, last, cd) == n - last <= cd

\* now - self._last_fire_ts < self.cooldown_sec
InCooldown(n, last, cd) == n - last < cd

SentinelFrame == UNCHANGED <<adapter_vars, symbol_vars, lock_vars>>

InitSentinel ==
  /\ adapter = "bybit"
  /\ max_retries = 0
  /\ retry_backoff = 1
  /\ AdapterIdle
  /\ SymbolIdle
  /\ LockIdle
  /\ \E c \in 0..MaxCooldown, t \in StartTime..(StartTime + TicksPerSecond - 1) :
       SentinelIdle(c, t)

\* update, called when the clock reads t with detectors whose weighted
\* scores sum to score
Update ==
  /\ Len(fired) < MaxFired
  /\ \E t \in now..MaxNow, score \in Scores :
       LET lv == LevelOf(score)
           n  == IntTime(t)
       IN /\ now' = t
          /\ reached' = lv
          /\ IF lv \in Escalations /\ InCooldown(n, last_fire_ts, cooldown_sec)
               THEN /\ level' = "normal"
                    /\ UNCHANGED <<last_fire_ts, fired>>
               ELSE IF lv \in Escalations
               THEN /\ last_fire_ts' = n
                    /\ level' = lv
                    /\ fired' = Append(fired, t)
               ELSE /\ level' = lv
                    /\ UNCHANGED <<last_fire_ts, fired>>
  /\ UNCHANGED cooldown_sec
  /\ SentinelFrame

ResetCooldown ==
  /\ last_fire_ts' = 0
  /\ fired' = <<>>
  /\ reached' = "none"
  /\ level' = "none"
  /\ UNCHANGED <<cooldown_sec, now>>
  /\ SentinelFrame

NextSentinel == Update \/ ResetCooldown

SpecSentinel == InitSentinel /\ [][NextSentinel]_vars

(***************************************************************************)
(* Properties of _request.                                                 *)
(***************************************************************************)
Last(seq) == seq[Len(seq)]

\* the current _request call has left its loop
RequestOver == req_result.kind # "none"

\* every attempt of the current _request call raised RetryableError
AllRetryable ==
  /\ trace # <<>>
  /\ \A i \in 1..Len(trace) : trace[i].exc.type = "RetryableError"

\* the call was ended by the exhaustion branch of an except-clause
ExhaustedCall ==
  /\ RequestOver
  /\ Last(trace).exc.type \in {"RetryableError", "Other"}

\* C1 (as stated): when every attempt of a _request call raises
\* RetryableError, exactly cfg.max_retries attempts are made and the call
\* raises.
C1_AttemptsEqualMaxRetries ==
  (RequestOver /\ AllRetryable) =>
     (Len(trace) = max_retries /\ req_result.kind = "raise")

\* C1 (amended): when every attempt of a _request call raises
\* RetryableError, exactly cfg.max_retries + 1 attempts are made (the first
\* attempt and max_retries retries) and the call raises; while the call is
\* in progress no more than that many attempts have been made.
C1_AttemptsEqualMaxRetriesPlusOne ==
  /\ Len(trace) <= max_retries + 1
  /\ (RequestOver /\ AllRetryable) =>
        (Len(trace) = max_retries + 1 /\ req_result.kind = "raise")

C1_Witness ==
  /\ RequestOver
  /\ AllRetryable
  /\ max_retries >= 2
  /\ Len(trace) = max_retries + 1
  /\ req_result.kind = "raise"

\* C2: an attempt that raises NonRetryableError is the last attempt of its
\* call: nothing is slept after it, no further attempt is made and that
\* exception is what the call raises, however many attempts were left.
C2_NonRetryableStops ==
  \A i \in 1..Len(trace) :
     trace[i].exc.type = "NonRetryableError" =>
        /\ i = Len(trace)
        /\ trace[i].act = "raise"
        /\ Len(sleeps) = i - 1
        /\ attempt = i - 1
        /\ req_result = Raised(trace[i].exc)

C2_Witness ==
  /\ Len(trace) >= 2
  /\ Len(trace) <= max_retries
  /\ Last(trace).exc.type = "NonRetryableError"
  /\ req_result.kind = "raise"

\* C3 (as stated): after exhaustion the call raises the very exception of
\* the failed attempt, for RetryableError and for an unclassified exception.
C3_OriginalErrorReraised ==
  ExhaustedCall => req_result = Raised(Last(trace).exc)

\* C3 (amended): after exhaustion with RetryableError the call raises the
\* very exception of the last attempt; after exhaustion with an unclassified
\* exception it raises a new RetryableError built from that exception, not
\* the exception itself.
C3_TypedErrorAfterExhaustion ==
  ExhaustedCall =>
     /\ Len(trace) = max_retries + 1
     /\ req_result.kind = "raise"
     /\ req_result.exc.type = "RetryableError"
     /\ Last(trace).exc.type = "RetryableError" =>
           req_result.exc = Last(trace).exc
     /\ Last(trace).exc.type = "Other" =>
           /\ req_result.exc = Wrap(Last(trace).exc)
           /\ req_result.exc # Last(trace).exc

C3_Witness ==
  /\ ExhaustedCall
  /\ max_retries >= 1
  /\ Last(trace).exc.type = "RetryableError"
  /\ trace[1].exc.type = "Other"
  /\ req_result = Raised(Last(trace).exc)

\* C4: the delays slept between the failed attempts of one call are
\* strictly increasing.
C4_DelaysStrictlyIncreasing ==
  \A i \in 1..Len(sleeps) : \A j \in 1..Len(sleeps) :
     i < j => sleeps[i] < sleeps[j]

\* C5: a rate-limit response and a 5xx response are classified
\* RetryableError; a 4xx response or a venue rejection that is no rate-limit
\* is classified NonRetryableError.
IsResponse(inp) == inp.raises = "none"

RateLimit(inp) == IsResponse(inp) /\ (inp.status = 429 \/ inp.retCode \in RetryCodes)

ServerError(inp) == IsResponse(inp) /\ inp.status >= 500

Rejection(inp) ==
  /\ IsResponse(inp)
  /\ ~RateLimit(inp)
  /\ ~ServerError(inp)
  /\ \/ inp.status >= 400
     \/ (inp.json_ok /\ inp.retCode > 0)

\* the attempt was treated as retryable: it raised RetryableError, or an
\* exception that the generic except-clause retries and reports as one
TreatedRetryable(t) == t.exc.type \in {"RetryableError", "Other"}

C5_Classification ==
  trace # <<>> =>
     /\ (RateLimit(last_inp) \/ ServerError(last_inp)) =>
           TreatedRetryable(Last(trace))
     /\ Rejection(last_inp) => Last(trace).exc.type = "NonRetryableError"

\* C6: an attempt that raises an unclassified exception is followed by a
\* backoff and another attempt while attempts remain; the exception reaches
\* the caller (as a RetryableError) only from the last allowed attempt.
C6_UnclassifiedIsRetried ==
  \A i \in 1..Len(trace) :
     trace[i].exc.type = "Other" =>
        IF i <= max_retries
          THEN /\ trace[i].act = "sleep"
               /\ Len(sleeps) >= i
               /\ (i = Len(trace) => (~RequestOver /\ attempt = i))
          ELSE /\ trace[i].act = "wrap"
               /\ i = Len(trace)
               /\ req_result = Raised(Wrap(trace[i].exc))

C6_Witness ==
  /\ Len(trace) >= 2
  /\ trace[1].exc.type = "Other"
  /\ trace[1].act = "sleep"
  /\ Len(sleeps) >= 1

(***************************************************************************)
(* Properties of the Broker's retry wrapper.                               *)
(***************************************************************************)
BrokerOver == op \in BrokerOps /\ phase = "done"

\* C7: when the adapter call of a Broker operation raises
\* NonRetryableError, the adapter is invoked exactly once and that error
\* reaches the caller without a retry.
C7_BrokerNoRetryOnNonRetryable ==
  (BrokerOver /\ b_calls[1].type = "NonRetryableError") =>
     /\ Len(b_calls) = 1
     /\ b_sleeps = 0
     /\ result = Raised(b_calls[1])

\* C8: when the adapter call of a Broker operation fails on every attempt
\* with a typed error, the exception raised to the caller is the typed
\* error the adapter raised.
C8_BrokerRaisesOriginalError ==
  (/\ BrokerOver
   /\ \A i \in 1..Len(b_calls) :
         b_calls[i].type \in {"RetryableError", "NonRetryableError"}) =>
     /\ result.kind = "raise"
     /\ result.exc = Last(b_calls)

(***************************************************************************)
(* Properties of place_order and of the validator.                         *)
(***************************************************************************)
\* C9: a place_order call for a limit order without a price is rejected by
\* the validator before any network call: no request of any kind, the
\* symbol-info fetch included, is sent during the call.
C9_LimitWithoutPriceSendsNothing ==
  (/\ op = "place_order"
   /\ params.order_type = "limit"
   /\ ~params.price.some) =>
     /\ sent = <<>>
     /\ phase = "done" =>
          (v_result = "limit order requires price" /\ result = Raised(LocalError))

\* the decimal number q is an integer multiple of the decimal number step
IsMultiple(q, step) ==
  (q.n * Pow10(MaxDecimals - q.d)) % (step.n * Pow10(MaxDecimals - step.d)) = 0

Validated == op = "validate_order" /\ phase = "done"

\* C10: validate_order rejects every order whose qty is not an exact
\* integer multiple of qty_step_size, and does not reject for misalignment
\* any order whose qty is an exact integer multiple of qty_step_size.
C10_QtyStepExact ==
  Validated =>
     /\ ~IsMultiple(params.qty, info.qty_step_size) =>
           (v_result # "ok" /\ result = Raised(LocalError))
     /\ IsMultiple(params.qty, info.qty_step_size) =>
           v_result # "qty not aligned to stepSize"

(***************************************************************************)
(* Properties of the order reads.                                          *)
(***************************************************************************)
\* the statuses status_map has a key for
MappedStatuses == {"New", "PartiallyFilled", "Filled", "Cancelled", "Rejected"}

\* the call is over and the venue holds entries for it, all readable
VenueAnswered(o) ==
  /\ op = o
  /\ phase = "done"
  /\ venue.list # <<>>
  /\ \A i \in 1..Len(venue.list) : venue.list[i].parses

\* C11: when the venue's status of an order is not in the mapping table,
\* get_order and get_open_orders return, without raising, OrderAcks whose
\* status for that order is "unknown".
C11_UnmappedStatusIsUnknown ==
  /\ (VenueAnswered("get_order") /\ venue.list[1].status \notin MappedStatuses) =>
        /\ result.kind = "return"
        /\ Len(ret) = 1
        /\ ret[1].status = "unknown"
  /\ VenueAnswered("get_open_orders") =>
        /\ result.kind = "return"
        /\ \A i \in 1..Len(ret) :
              venue.list[i].status \notin MappedStatuses =>
                 ret[i].status = "unknown"

\* the operations that return OrderAcks
AckOps == {"place_order", "amend_order", "cancel_order", "get_order",
           "get_open_orders", "place_orders_bulk"}

Vocabulary == {"new", "partial", "filled", "canceled", "rejected", "unknown"}

\* C12: every OrderAck that carries a status and is returned by place_order,
\* amend_order, cancel_order, get_order, get_open_orders or
\* place_orders_bulk has its status in the fixed vocabulary.
C12_StatusInVocabulary ==
  (op \in AckOps /\ phase = "done") =>
     \A i \in 1..Len(ret) :
        ret[i].status # "none" => ret[i].status \in Vocabulary

\* C13: every OrderAck with ok = false returned by place_order, amend_order,
\* cancel_order, get_order or place_orders_bulk carries a non-empty error.
C13_NotOkCarriesError ==
  (op \in AckOps /\ phase = "done") =>
     \A i \in 1..Len(ret) : ~ret[i].ok => ret[i].error

(***************************************************************************)
(* Properties of get_positions.                                            *)
(***************************************************************************)
PositionsReturned ==
  op = "get_positions" /\ phase = "done" /\ result.kind = "return"

\* the positions of the venue's answer that are not flat
RECURSIVE OpenPositions(_)
OpenPositions(rows) ==
  IF rows = <<>> THEN <<>>
  ELSE IF IsZero(rows[1].qty) THEN OpenPositions(Tail(rows))
  ELSE <<PositionOf(rows[1])>> \o OpenPositions(Tail(rows))

PlaceOrderOver == op = "place_order" /\ phase = "done"

\* C15: a place_order that fails, whatever the cause (the order does not
\* pass validate_order, the symbol info cannot be fetched, the venue
\* rejects the order, the transport fails), returns an OrderAck with
\* ok = false: place_order raises nothing.
C15_FailedPlaceOrderReturnsAck ==
  PlaceOrderOver =>
     /\ result.kind = "return"
     /\ v_result \notin {"none", "ok"} => ~result.ack.ok

(***************************************************************************)
(* Properties of a second cancel_order.                                    *)
(***************************************************************************)
\* cancel_order for an order that an earlier cancel_order canceled
SecondCancel == op = "cancel_order" /\ prev = "canceled"

\* the venue's answer to a cancel of an order that is no longer open
AlreadyCanceled == Resp(200, 110001, TRUE)

RoundTrip == op = "get_order" /\ prev = "placed" /\ phase = "done"

\* C17: after a place_order that returned ok = true, get_order with the
\* returned order_id returns an OrderAck whose status is in the vocabulary
\* and whose filled_qty is between 0 and the order's qty, on both adapters.
C17_RoundTripReportsOrder ==
  RoundTrip =>
     /\ result.kind = "return"
     /\ ret[1].status \in Vocabulary
     /\ ret[1].qty.some
     /\ DecLE(ret[1].qty.v, params.qty)

(***************************************************************************)
(* Properties of Bybit's get_orderbook.                                    *)
(***************************************************************************)
OrderbookAsked == op = "get_orderbook" /\ adapter = "bybit" /\ sent # <<>>

DepthSet == {ValidDepths[i] : i \in 1..Len(ValidDepths)}

\* C18: Bybit's get_orderbook rejects no depth: for every depth it sends a
\* request, whose limit is the member of {1, 25, 50, 100, 200, 500} nearest
\* to depth by absolute difference, the smaller member on a tie; the call
\* raises only what the request or the conversion of its answer raises.
C18_LimitIsNearestDepth ==
  /\ (op = "get_orderbook" /\ adapter = "bybit" /\ phase = "done") =>
        /\ sent # <<>>
        /\ result.kind = "raise" =>
             req_result.kind = "raise" \/ result.exc = UntypedError
  /\ OrderbookAsked =>
        /\ limit \in DepthSet
        /\ \A v \in DepthSet :
             /\ Abs(limit - depth) <= Abs(v - depth)
             /\ Abs(limit - depth) = Abs(v - depth) => limit <= v

\* a depth halfway between two valid depths
C18_Witness ==
  /\ OrderbookAsked
  /\ phase = "done"
  /\ result.kind = "return"
  /\ \E v \in DepthSet : v # limit /\ Abs(limit - depth) = Abs(v - depth)

(***************************************************************************)
(* Properties of the reads when they fail.                                 *)
(***************************************************************************)
BestEffortReads == {"get_open_orders", "get_fills"}

QueryReads ==
  {"get_ticker", "get_orderbook", "get_funding_info", "get_symbol_info",
   "get_balances", "get_positions"}

\* the read's request ended with an error
RequestFailed == phase = "done" /\ req_result.kind = "raise"

\* the venue answered with an entry that cannot be converted
ParseFailed ==
  /\ phase = "done"
  /\ req_result.kind = "return"
  /\ \E i \in 1..Len(venue.list) : ~venue.list[i].parses

BestEffortNeverRaises ==
  (op \in BestEffortReads /\ phase = "done") =>
     /\ result.kind = "return"
     /\ (RequestFailed \/ ParseFailed) => ret = <<>>

\* C19 (as stated): get_open_orders and get_fills never raise and return
\* an empty list on a request failure or a parse error; every other read
\* of the adapter, get_order included, raises when its request fails.
C19_OtherReadsRaise ==
  /\ BestEffortNeverRaises
  /\ (op \in QueryReads \cup {"get_order"} /\ RequestFailed) =>
        result.kind = "raise"

\* C19 (amended): get_open_orders and get_fills never raise and return an
\* empty list on a request failure or a parse error; the market and
\* account queries raise the error of their request, and raise on an
\* answer they cannot convert; get_order raises nothing and reports the
\* failure as an OrderAck with ok = false and an error.
C19_QueriesRaiseGetOrderReports ==
  /\ BestEffortNeverRaises
  /\ (op \in QueryReads /\ RequestFailed) => result = req_result
  /\ (op \in QueryReads /\ ParseFailed) => result.kind = "raise"
  /\ (op = "get_order" /\ (RequestFailed \/ ParseFailed)) =>
        /\ result.kind = "return"
        /\ ~result.ack.ok
        /\ result.ack.error

C19_Witness ==
  /\ op = "get_open_orders"
  /\ adapter = "bybit"
  /\ RequestFailed
  /\ req_result.exc.type = "RetryableError"
  /\ result = Returned
  /\ ret = <<>>

(***************************************************************************)
(* Properties of the errors of the queries.                                *)
(***************************************************************************)
TypedErrors == {"RetryableError", "NonRetryableError"}

\* C20: whatever makes a query (get_ticker, get_orderbook,
\* get_funding_info, get_symbol_info, get_balances, get_positions) fail,
\* the caller gets a RetryableError or a NonRetryableError and nothing
\* else, and a RetryableError only once the retries are used up.
C20_QueryErrorsAreTyped ==
  (op \in QueryReads /\ phase = "done" /\ result.kind = "raise") =>
     /\ result.exc.type \in TypedErrors
     /\ result.exc.type = "RetryableError" =>
          Len(trace) = LoopBound(max_retries)

(***************************************************************************)
(* Properties of the adapter's lock.                                       *)
(***************************************************************************)
\* thread t is between entering _request and its HTTP call: it reads the
\* clock-skew offset and signs
Constructing(t) == pc[t] \in {"timestamp", "sign"}

\* C21: a thread reads the clock-skew offset and signs only while it holds
\* the adapter's lock, and sends the HTTP request with the lock released;
\* so the timestamp-and-sign steps of two threads never interleave.
C21_SignsUnderLock ==
  /\ \A t \in Threads : Constructing(t) => lock = t
  /\ \A t \in Threads : pc[t] = "http" => lock # t
  /\ ~(\A t \in Threads : Constructing(t))

(***************************************************************************)
(* Properties of the private stream.                                       *)
(***************************************************************************)
\* C22: a private stream registered with ws_sub_private is, after an
\* unexpected disconnect, reconnected and reconciled (get_open_orders,
\* get_positions, get_balances) before any further callback is delivered.
\* The scenario starts with a registered stream: ws_sub_private returns,
\* having registered the callbacks, and has asked the venue for something.
C22_PrivateStreamRegistered ==
  (op = "ws_sub_private" /\ phase = "done") =>
     /\ result.kind = "return"
     /\ sent # <<>>

\* C24: one call of place_order, of Broker.place_limit or of
\* Broker.place_market creates at most one order at the venue, retries of
\* _request and of the Broker's retry wrapper included.
C24_AtMostOneOrder ==
  op \in {"place_order", "place_limit", "place_market"} => created <= 1

\* C23: the symbol mapping is a bijection used consistently: the venue
\* symbol an operation made of a standard symbol maps back to that standard
\* symbol, and every operation makes the same venue symbol of it.
C23_SymbolMappingConsistent ==
  /\ phase = "in" => std_symbol = symbol
  /\ phase \in {"out", "in"} =>
       \A o \in TranslatingOps(adapter) :
         VenueSymbol(adapter, o, symbol) = ex_symbol

\* the operation in progress has reported success to its caller
ReportsSuccess ==
  /\ phase = "done"
  /\ result.kind = "return"
  /\ \/ op \in {"place_order", "amend_order", "cancel_order"} /\ result.ack.ok
     \/ op \in {"set_leverage", "set_margin_mode", "cancel_all"} /\ ret = <<TRUE>>

\* the venue answered the latest request with success
VenueSuccess(inp) == inp.raises = "none" /\ inp.json_ok /\ inp.retCode = 0

\* C25: the adapter reports success (ok = true from place_order, amend_order
\* or cancel_order; True from set_leverage, set_margin_mode or cancel_all)
\* only if the request was sent and the venue answered it with success.
C25_SuccessMeansVenueSuccess ==
  ReportsSuccess => sent # <<>> /\ VenueSuccess(last_inp)

\* set_margin_mode was called right after a successful set_leverage(x) and
\* has returned True
MarginModeAfterLeverage ==
  /\ op = "set_margin_mode"
  /\ prev = "leveraged"
  /\ phase = "done"
  /\ result.kind = "return"

\* C28: set_margin_mode leaves the leverage unchanged: after set_leverage(x)
\* succeeded and set_margin_mode succeeded, the leverage last requested at
\* the venue is still x.
C28_MarginModeKeepsLeverage ==
  (adapter = "bybit" /\ MarginModeAfterLeverage) => leverage = x_arg

\* Bybit's place_orders_bulk has returned a list
BulkReturned ==
  /\ adapter = "bybit"
  /\ op = "place_orders_bulk"
  /\ phase = "done"
  /\ result.kind = "return"

\* C26: Bybit's place_orders_bulk returns exactly one OrderAck per input
\* order, for the empty list, for up to ten orders and for more than ten
\* orders, whether the venue call succeeds or fails.
C26_OneAckPerOrder == BulkReturned => Len(ret) = Len(orders)

\* C27: Bybit's place_orders_bulk never raises after part of the orders has
\* been submitted: when the call raises, no create-batch request of the call
\* has been sent.
C27_NoRaiseAfterSubmission ==
  (adapter = "bybit" /\ op = "place_orders_bulk" /\ phase = "done"
     /\ result.kind = "raise")
  => \A i \in 1..Len(sent) : sent[i] # "order/create-batch"

\* C29: validate_order rejects every OrderParams whose qty is not positive,
\* whatever the SymbolInfo (min_qty absent included).
C29_NonPositiveQtyRejected ==
  (op = "validate_order" /\ phase = "done" /\ params.qty.n <= 0)
  => (v_result # "ok" /\ result.kind = "raise")

\* the latest update reached a threshold and returned normal
Suppressed == reached \in Escalations /\ level = "normal"

\* C30 (as stated): without a reset_cooldown in between, two update calls
\* that return tighten or pause are at least cooldown_sec seconds apart.
C30_EscalationsCooldownApart ==
  \A i \in 1..(Len(fired) - 1) :
    fired[i + 1] - fired[i] >= cooldown_sec * TicksPerSecond

\* C30 (amended): without a reset_cooldown in between, the whole-second
\* clock readings int(time()) of two update calls that return tighten or
\* pause differ by at least cooldown_sec; a call is suppressed only less
\* than cooldown_sec whole seconds after the last escalation, which is
\* never the case right after reset_cooldown; a suppressed call leaves
\* _last_fire_ts at the reading of the last escalation.
C30_CooldownInWholeSeconds ==
  /\ \A i \in 1..(Len(fired) - 1) :
       IntTime(fired[i + 1]) - IntTime(fired[i]) >= cooldown_sec
  /\ Suppressed =>
       /\ fired # <<>>
       /\ IntTime(now) - IntTime(Last(fired)) < cooldown_sec
  /\ level \in Escalations =>
       /\ level = reached
       /\ fired # <<>>
       /\ Last(fired) = now
  /\ last_fire_ts = IF fired = <<>> THEN 0 ELSE IntTime(Last(fired))

\* a call was suppressed after two escalations
C30_Witness == Len(fired) >= 2 /\ cooldown_sec > 0 /\ Suppressed

====
